---------------------------- MODULE Spec2Model ----------------------------
(***************************************************************************)
(* A model of the synthetic survey-dataset generator of Process-SEM        *)
(* (src/1_Dataset/generate_empirical_dataset.py).                          *)
(*                                                                         *)
(* Number representation (Python floats become exact fixed-point integers):*)
(*   prevalence                      per mille        (0.25  -> 250)       *)
(*   firstgen, pell, fast_prob       per cent         (0.65  -> 65)        *)
(*   propensity, fast_scale,                                               *)
(*   pell_scale                      1/10000          (0.05  -> 500)       *)
(*   credits (raw_credits)           1/10 credit      (12    -> 120)       *)
(*   credit_dose                     1/100 dose unit  (6.8   -> 680)       *)
(*   x_c (centered columns)          x_c * number of rows, in x's unit     *)
(* Random draws are a choice over (a bounded part of) the support of the   *)
(* distribution; rng_pos counts the variates consumed since seeding, and   *)
(* tape remembers the variates the seeded stream has already revealed, so  *)
(* that a re-seeded stream repeats them.                                   *)
(***************************************************************************)
EXTENDS Integers, Sequences, FiniteSets, TLC

VARIABLES
    pc,              \* control position of the process / of generate_dataset
    catalog,         \* ARCHETYPES: the archetype dict, in insertion order
    n_total,         \* N_TOTAL
    archetype_ns,    \* archetype_ns: ordered dict id -> n, as <<id, n>> pairs
    alloc_i,         \* position of the allocation loop in the catalog
    total_assigned,  \* total_assigned
    fast_scale,      \* fast_scale (1/10000)
    pell_scale,      \* pell_scale (1/10000)
    batch_i,         \* position of the batch loop in archetype_ns
    columns,         \* df.columns: column names in pandas order
    df,              \* df: column name -> cells, for the columns modelled
    archetype_ids,   \* archetype_ids: archetype label per row position
    upstream,        \* df.columns as it was when the reorder step began
    rng_pos,         \* variates consumed from the global stream since seeding
    tape,            \* revealed part of the seeded stream: position -> variate
    error,           \* the exception that ended the run, or "none"
    calls,           \* invocations of generate_dataset in this process
    procs,           \* process runs of the script so far
    start_pos,       \* rng_pos at the start of the current invocation
    first_out,       \* what the first invocation returned
    row,             \* the row an isolated helper call works on
    sim,             \* the MonteCarloSimulator and what its run() returned
    stat,            \* one call of a weighted-statistic helper
    trace            \* the stages of the current invocation, in execution order

allocVars == <<archetype_ns, alloc_i, total_assigned>>
scaleVars == <<fast_scale, pell_scale>>
tableVars == <<batch_i, columns, df, archetype_ids, upstream>>
rngVars   == <<rng_pos, tape>>
runVars   == <<calls, procs, start_pos, first_out>>
callVars  == <<sim, stat>>
vars == <<pc, catalog, n_total, allocVars, scaleVars, tableVars, rngVars,
          error, runVars, row, callVars, trace>>

(***************************************************************************)
(* Bounds of the model.                                                    *)
(***************************************************************************)
MinN == 2             \* smallest N_TOTAL of an assembled table
MaxN == 3             \* largest N_TOTAL of an assembled table
MaxAllocN == 60       \* largest N_TOTAL of the allocation-only runs
MaxExpIdx == 3        \* exponential draws are ExpValue(0..MaxExpIdx)
MaxScaleIdx == 2      \* fast_scale of an isolated call: PROB_ONE * (1..MaxScaleIdx) / MaxScaleIdx
MaxLatent == 20       \* latent scores of an isolated call: halves up to MaxLatent / 2
MaxNoise == 12        \* noise of an isolated call: tenths up to MaxNoise / 10
MaxDropped == 1       \* schema columns an upstream table may lack
MaxSims == 4          \* largest n_simulations of a simulator run
MaxRuns == 2          \* calls of run() on one simulator
MaxSample == 2        \* largest sample of a weighted-statistic call

(***************************************************************************)
(* Program constants.                                                      *)
(***************************************************************************)
N_TOTAL == 5000
FAST_TARGET == 2700          \* 0.27
FAST_CONF_SCALE == 20        \* 0.20, per cent
FAST_BASE_SHIFT == 400       \* 0.04
PELL_TARGET == 5200          \* 0.52
SEX_FEMALE_PROB == 5300      \* 0.53
PROB_ONE == 10000            \* 1.0 in the unit of probabilities
PROP_MIN == 500              \* 0.05, lower clip of the propensity
PROP_MAX == 8000             \* 0.80, upper clip of the propensity
CREDIT_MIN == 120            \* 12 credits, the FASt threshold
CREDIT_CAP == 800            \* 80 credits, the cap of raw_credits
NaN == -1000000              \* np.nan, the missing marker of a cell

Arch(id, prev, re, sex, fg, pell, living, fast, base, a1, a2, amp) ==
    [id |-> id, prevalence |-> prev, re_all |-> re, sex |-> sex,
     firstgen |-> fg, pell |-> pell, living |-> living, fast_prob |-> fast,
     base_responses |-> base, a1 |-> a1, a2 |-> a2, dose_amplify |-> amp]

\* base_responses: <<EmoDiss, QualEngag, Belong, Gains, SupportEnv, Satisf>>
\* in tenths; a1, a2 in hundredths; dose_amplify in tenths.
ARCHETYPES == <<
    Arch(1, 250, "Hispanic/Latino", "Female", 65, 60, "With family (commuting)",
         20, <<42, 45, 28, 30, 27, 29>>, 25, -20, 12),
    Arch(2, 90, "Hispanic/Latino", "Male", 60, 55, "Off-campus (rent/apartment)",
         25, <<38, 48, 27, 28, 26, 28>>, 15, -5, 11),
    Arch(3, 110, "Asian", "None", 15, 12, "With family (commuting)",
         45, <<45, 50, 25, 32, 28, 30>>, 0, 0, 0),
    Arch(4, 40, "Asian", "None", 65, 60, "Off-campus (rent/apartment)",
         30, <<48, 43, 23, 29, 24, 26>>, 20, -15, 13),
    Arch(5, 25, "Black/African American", "Female", 55, 50, "On-campus (residence hall)",
         15, <<35, 52, 26, 30, 27, 29>>, 18, -12, 11),
    Arch(6, 30, "White", "None", 12, 18, "On-campus (residence hall)",
         35, <<28, 58, 33, 31, 32, 34>>, -10, 12, -5),
    Arch(7, 30, "White", "None", 45, 50, "Off-campus (rent/apartment)",
         20, <<37, 44, 25, 27, 25, 27>>, 5, -2, 0),
    Arch(8, 100, "Other/Multiracial/Unknown", "None", 40, 42, "None",
         25, <<34, 51, 27, 30, 28, 30>>, 5, 0, 0),
    Arch(9, 200, "Hispanic/Latino", "None", 50, 45, "On-campus (residence hall)",
         30, <<33, 53, 30, 31, 30, 31>>, 8, -5, 5),
    Arch(10, 40, "None", "None", 10, 15, "None",
         40, <<25, 55, 32, 29, 31, 33>>, -12, 15, -5),
    Arch(11, 40, "White", "None", 60, 55, "With family (commuting)",
         22, <<35, 46, 26, 28, 26, 28>>, 12, -8, 8),
    Arch(12, 15, "Black/African American", "Male", 50, 45, "Off-campus (rent/apartment)",
         18, <<36, 47, 25, 29, 25, 27>>, 15, -10, 10),
    Arch(13, 30, "White", "None", 50, 45, "Off-campus (rent/apartment)",
         18, <<38, 43, 24, 27, 24, 26>>, 10, -6, 7) >>

(***************************************************************************)
(* Arithmetic helpers.                                                     *)
(***************************************************************************)
Min(a, b) == IF a <= b THEN a ELSE b
Max(a, b) == IF a >= b THEN a ELSE b

\* np.clip(x, lo, hi)
Clip(x, lo, hi) == Min(Max(x, lo), hi)

\* int(x) of a quotient a / b, b > 0: truncation toward zero
TruncDiv(a, b) == IF a >= 0 THEN a \div b ELSE -((-a) \div b)

RECURSIVE SeqSum(_)
SeqSum(s) == IF s = <<>> THEN 0 ELSE Head(s) + SeqSum(Tail(s))

SeqSet(s) == {s[i] : i \in DOMAIN s}

\* max(ARCHETYPES.keys())
MaxArchId(cat) == CHOOSE m \in {cat[i].id : i \in DOMAIN cat} :
                      \A i \in DOMAIN cat : cat[i].id <= m

\* ARCHETYPES[arch_id]
ArchById(cat, id) == cat[CHOOSE i \in DOMAIN cat : cat[i].id = id]


(***************************************************************************)
(* The random stream.  np.random.seed(42) at import puts the global stream *)
(* at position 0; every variate drawn advances it by one.                  *)
(***************************************************************************)
\* n variates whose value no modelled column depends on: the model leaves
\* their value unknown
Opaque(n) == [i \in 1..n |-> NaN]

\* The variates d, drawn in order from position p on, agree with what the
\* seeded stream has already revealed at these positions.
Replays(p, d) ==
    \A i \in DOMAIN d : (p + i) \in DOMAIN tape => tape[p + i] = d[i]

\* the revealed stream after d was drawn from position p on
Revealed(p, d) ==
    LET read == {p + i : i \in {j \in DOMAIN d : d[j] # NaN}}
    IN  [k \in (DOMAIN tape) \cup read |->
            IF k \in read THEN d[k - p] ELSE tape[k]]

\* np.random.seed(42)
SeedPos == 0

\* tr, and after it the stage that begins at stream position pos; arch is
\* the archetype of a batch stage and 0 for a stage of the whole table
Logged(tr, stage, arch, pos) ==
    Append(tr, [stage |-> stage, arch |-> arch, at |-> pos])

\* the draws d are consumed from the global stream
Consume(d) ==
    /\ Replays(rng_pos, d)
    /\ tape' = Revealed(rng_pos, d)
    /\ rng_pos' = rng_pos + Len(d)

(***************************************************************************)
(* The state after the module was imported: the stream is seeded and       *)
(* generate_dataset has not been called.                                   *)
(***************************************************************************)
NoRow == [stage |-> "none"]
NoOut == [set |-> FALSE]
NoSim == [stage |-> "none"]
NoStat == [stage |-> "none"]

InitAll(cat, n, r, s, st) ==
    /\ pc = "idle"
    /\ catalog = cat
    /\ n_total = n
    /\ archetype_ns = <<>>
    /\ alloc_i = 1
    /\ total_assigned = 0
    /\ fast_scale = 0
    /\ pell_scale = 0
    /\ batch_i = 1
    /\ columns = <<>>
    /\ df = <<>>
    /\ archetype_ids = <<>>
    /\ upstream = {}
    /\ rng_pos = SeedPos
    /\ tape = <<>>
    /\ error = "none"
    /\ calls = 0
    /\ procs = 1
    /\ start_pos = 0
    /\ first_out = NoOut
    /\ row = r
    /\ sim = s
    /\ stat = st
    /\ trace = <<>>

InitState(cat, n, r) == InitAll(cat, n, r, NoSim, NoStat)

InitWith(cat, n) == InitState(cat, n, NoRow)

\* generate_dataset() is called
Invoke ==
    /\ pc = "idle"
    /\ calls = 0
    /\ pc' = "alloc"
    /\ calls' = 1
    /\ start_pos' = rng_pos
    /\ UNCHANGED <<catalog, n_total, allocVars, scaleVars, tableVars, rngVars,
                   error, procs, first_out, row, callVars, trace>>

(***************************************************************************)
(* Archetype sample sizes (generate_dataset, "Calculate archetype sample   *)
(* sizes").                                                                *)
(***************************************************************************)
\* int(N_TOTAL * arch['prevalence'])
SampleSize(n, prevalence) == TruncDiv(n * prevalence, 1000)

\* one iteration of: for arch_id, arch in ARCHETYPES.items()
AllocStep ==
    /\ pc = "alloc"
    /\ alloc_i <= Len(catalog)
    /\ LET arch == catalog[alloc_i]
           n == SampleSize(n_total, arch.prevalence)
       IN  IF arch.id < MaxArchId(catalog)
           THEN /\ archetype_ns' = Append(archetype_ns, <<arch.id, n>>)
                /\ total_assigned' = total_assigned + n
           ELSE UNCHANGED <<archetype_ns, total_assigned>>
    /\ alloc_i' = alloc_i + 1
    /\ UNCHANGED <<pc, catalog, n_total, scaleVars, tableVars, rngVars, error,
                   runVars, row, callVars, trace>>

LastSizeFloored(n, assigned) == TruncDiv(n * 30, 1000)

\* archetype_ns[max_arch_id] = N_TOTAL - total_assigned
LastSize(n, assigned) == n - assigned

AllocLast ==
    /\ pc = "alloc"
    /\ alloc_i > Len(catalog)
    /\ archetype_ns' = Append(archetype_ns,
            <<MaxArchId(catalog), LastSize(n_total, total_assigned)>>)
    /\ pc' = "scales"
    /\ UNCHANGED <<catalog, n_total, alloc_i, total_assigned, scaleVars,
                   tableVars, rngVars, error, runVars, row, callVars, trace>>

\* archetype_ns[arch_id]
NsOf(id) == archetype_ns[CHOOSE i \in DOMAIN archetype_ns : archetype_ns[i][1] = id][2]

NsIds == {archetype_ns[i][1] : i \in DOMAIN archetype_ns}

(***************************************************************************)
(* Allocation alone, for every N_TOTAL from the number of archetypes to    *)
(* MaxAllocN, and for the N_TOTAL of the program.                          *)
(***************************************************************************)
AllocTotals == (Len(ARCHETYPES)..MaxAllocN) \cup {N_TOTAL}

InitAlloc == \E n \in AllocTotals : InitWith(ARCHETYPES, n)

NextAlloc == Invoke \/ AllocStep \/ AllocLast

SpecAlloc == InitAlloc /\ [][NextAlloc]_vars


(***************************************************************************)
(* generate_hs_background: the supports of the covariates the propensity   *)
(* reads.                                                                  *)
(***************************************************************************)
\* is_privileged = archetype_id in [3, 6, 10]
IsPrivileged(id) == id \in {3, 6, 10}

\* is_first_gen = arch['demographics'].get('firstgen', 0) == 1
IsFirstGen(arch) == arch.firstgen = 100

HgradesSupport(arch) ==
    IF IsPrivileged(arch.id) THEN {6, 7, 8}
    ELSE IF IsFirstGen(arch) THEN {4, 5, 6, 7}
    ELSE {5, 6, 7, 8}

BparentedSupport(arch) ==
    IF IsFirstGen(arch) THEN {1, 2, 3, 4} ELSE {5, 6, 7, 8}

HapclSupport == {0, 1}

\* the 1-8 scales of hgrades and bparented
GradeScale == 1..8

(***************************************************************************)
(* generate_treatment_and_dose.                                            *)
(***************************************************************************)
\* base_prob = max(0.05, arch['fast_prob'] * fast_scale - FAST_BASE_SHIFT)
BaseProb(arch, fs) ==
    Max(PROP_MIN, ((arch.fast_prob * fs) \div 100) - FAST_BASE_SHIFT)

\* p after the three confounding terms, before the clip
RawPropensity(arch, hg, ap, bp, fs) ==
    BaseProb(arch, fs) + (hg - 5) * 5 * FAST_CONF_SCALE
                       + ap * 10 * FAST_CONF_SCALE
                       + (bp - 4) * 3 * FAST_CONF_SCALE

PropensityUnclipped(arch, hg, ap, bp, fs) == RawPropensity(arch, hg, ap, bp, fs)

\* propensity[i] = np.clip(p, 0.05, 0.80)
Propensity(arch, hg, ap, bp, fs) ==
    Clip(RawPropensity(arch, hg, ap, bp, fs), PROP_MIN, PROP_MAX)

\* np.random.binomial(1, p): the outcomes of probability > 0
BernoulliSupport(p) ==
    {x \in {0, 1} : (x = 1 => p > 0) /\ (x = 0 => p < PROB_ONE)}

\* a draw of np.random.exponential, in 1/10 credit
ExpValue(k) == 35 * k * k

ExpDraws == {ExpValue(k) : k \in 0..MaxExpIdx}

\* exponential variates a treated row consumes: the base amount, one more
\* if hgrades >= 7, one more if hapcl == 1
NumExpDraws(hg, ap) ==
    1 + (IF hg >= 7 THEN 1 ELSE 0) + (IF ap = 1 THEN 1 ELSE 0)

RawCreditsUncapped(e) == CREDIT_MIN + SeqSum(e)

\* raw_credits = min(base_credits, 80)
RawCredits(e) == Min(CREDIT_MIN + SeqSum(e), CREDIT_CAP)

\* credit_dose[i]: max(0, raw_credits - 12) / 10 for a FASt row, else the
\* 0 of np.zeros(n)
CreditDose(x, e) == IF x = 1 THEN Max(0, RawCredits(e) - CREDIT_MIN) ELSE 0

\* the variates generate_treatment_and_dose draws for its credits
DoseDraws(x, hg, ap, pool) ==
    IF x = 1 THEN [1..NumExpDraws(hg, ap) -> pool] ELSE {<<>>}

(***************************************************************************)
(* DC variables of generate_dataset: the credit count of a row.            *)
(***************************************************************************)
\* np.random.choice([0, 1, ..., 11]), drawn for the rows with x_FASt == 0
ControlCredits == 0..11

CreditDraws(x, pool) == IF x = 1 THEN {<<>>} ELSE {<<c>> : c \in pool}

TrnsfrCrNoBase(x, dose, d) == IF x = 1 THEN TruncDiv(dose, 10) ELSE d[1]

\* (12 + credit_dose * 10 if x_FASt == 1 else <choice>).astype(int);
\* d holds the variate drawn for the row, if one was
TrnsfrCr(x, dose, d) == IF x = 1 THEN TruncDiv(CREDIT_MIN + dose, 10) ELSE d[1]

(***************************************************************************)
(* An isolated call of generate_treatment_and_dose on one row, followed by *)
(* the credit count generate_dataset derives for that row.                 *)
(***************************************************************************)
FastScales == {(PROB_ONE * k) \div MaxScaleIdx : k \in 1..MaxScaleIdx}

InitRow ==
    \E i \in DOMAIN ARCHETYPES, fs \in FastScales,
       hg \in GradeScale, ap \in HapclSupport, bp \in GradeScale :
          InitState(ARCHETYPES, 1,
                    [stage |-> "covariates", arch |-> ARCHETYPES[i].id,
                     fast_scale |-> fs, hgrades |-> hg, hapcl |-> ap,
                     bparented |-> bp])

RowTreatment ==
    /\ row.stage = "covariates"
    /\ LET arch == ArchById(catalog, row.arch)
           p == Propensity(arch, row.hgrades, row.hapcl, row.bparented,
                           row.fast_scale)
       IN  \E x \in BernoulliSupport(p) :
           \E e \in DoseDraws(x, row.hgrades, row.hapcl, ExpDraws) :
              /\ row' = [stage |-> "treated", arch |-> row.arch,
                         fast_scale |-> row.fast_scale,
                         hgrades |-> row.hgrades, hapcl |-> row.hapcl,
                         bparented |-> row.bparented,
                         propensity |-> p, x_FASt |-> x,
                         credit_dose |-> CreditDose(x, e)]
              /\ Consume(<<x>> \o e)
    /\ UNCHANGED <<pc, catalog, n_total, allocVars, scaleVars, tableVars,
                   error, runVars, callVars, trace>>

RowCredits ==
    /\ row.stage = "treated"
    /\ \E d \in CreditDraws(row.x_FASt, ControlCredits) :
          /\ row' = [stage |-> "credits", arch |-> row.arch,
                     x_FASt |-> row.x_FASt,
                     credit_dose |-> row.credit_dose,
                     trnsfr_cr |-> TrnsfrCr(row.x_FASt, row.credit_dose, d)]
          /\ Consume(d)
    /\ UNCHANGED <<pc, catalog, n_total, allocVars, scaleVars, tableVars,
                   error, runVars, callVars, trace>>

NextRow == RowTreatment \/ RowCredits

SpecRow == InitRow /\ [][NextRow]_vars


(***************************************************************************)
(* The scale factors of generate_dataset.                                  *)
(***************************************************************************)
\* sum(archetype_ns[arch_id] * ARCHETYPES[arch_id][field] for arch_id in archetype_ns)
RECURSIVE WeightedSum(_, _, _)
WeightedSum(cat, ns, field) ==
    IF ns = <<>> THEN 0
    ELSE Head(ns)[2] * ArchById(cat, Head(ns)[1])[field]
         + WeightedSum(cat, Tail(ns), field)

\* a / b, b # 0, to the precision of the unit
Ratio(a, b) == IF b > 0 THEN a \div b ELSE -(a \div (-b))

\* fast_scale = min(1.0, FAST_TARGET / expected_base_fast)
FastScale(cat, ns, n) ==
    Min(PROB_ONE, Ratio(FAST_TARGET * 100 * n, WeightedSum(cat, ns, "fast_prob")))

\* pell_scale = PELL_TARGET / expected_pell
PellScale(cat, ns, n) ==
    Ratio(PELL_TARGET * 100 * n, WeightedSum(cat, ns, "pell"))

\* the two divisions raise ZeroDivisionError on a zero N_TOTAL or a zero sum
ComputeScales ==
    /\ pc = "scales"
    /\ IF \/ n_total = 0
          \/ WeightedSum(catalog, archetype_ns, "fast_prob") = 0
          \/ WeightedSum(catalog, archetype_ns, "pell") = 0
       THEN /\ pc' = "failed"
            /\ error' = "ZeroDivisionError"
            /\ UNCHANGED scaleVars
       ELSE /\ fast_scale' = FastScale(catalog, archetype_ns, n_total)
            /\ pell_scale' = PellScale(catalog, archetype_ns, n_total)
            /\ pc' = "batch"
            /\ UNCHANGED error
    /\ UNCHANGED <<catalog, n_total, allocVars, tableVars, rngVars, runVars, row, callVars, trace>>

(***************************************************************************)
(* The survey items.                                                       *)
(***************************************************************************)
Item(name, construct, lo, hi, loading) ==
    [name |-> name, construct |-> construct, scale_min |-> lo,
     scale_max |-> hi, loading |-> loading]

\* ITEMS, in insertion order; loading in hundredths
ITEMS == <<
    Item("sbvalued", "Belong", 1, 4, 82), Item("sbmyself", "Belong", 1, 4, 78),
    Item("sbcommunity", "Belong", 1, 4, 85),
    Item("pganalyze", "Gains", 1, 4, 72), Item("pgthink", "Gains", 1, 4, 80),
    Item("pgwork", "Gains", 1, 4, 75), Item("pgvalues", "Gains", 1, 4, 70),
    Item("pgprobsolve", "Gains", 1, 4, 77),
    Item("SEacademic", "SupportEnv", 1, 4, 80), Item("SEwellness", "SupportEnv", 1, 4, 78),
    Item("SEnonacad", "SupportEnv", 1, 4, 72), Item("SEactivities", "SupportEnv", 1, 4, 68),
    Item("SEdiverse", "SupportEnv", 1, 4, 74),
    Item("sameinst", "Satisf", 1, 4, 88), Item("evalexp", "Satisf", 1, 4, 85),
    Item("MHWdacad", "EmoDiss", 1, 6, 75), Item("MHWdlonely", "EmoDiss", 1, 6, 80),
    Item("MHWdmental", "EmoDiss", 1, 6, 85), Item("MHWdexhaust", "EmoDiss", 1, 6, 82),
    Item("MHWdsleep", "EmoDiss", 1, 6, 78), Item("MHWdfinancial", "EmoDiss", 1, 6, 65),
    Item("QIadmin", "QualEngag", 1, 7, 72), Item("QIstudent", "QualEngag", 1, 7, 75),
    Item("QIadvisor", "QualEngag", 1, 7, 80), Item("QIfaculty", "QualEngag", 1, 7, 82),
    Item("QIstaff", "QualEngag", 1, 7, 78) >>

ItemNames == [i \in DOMAIN ITEMS |-> ITEMS[i].name]

(***************************************************************************)
(* generate_ordinal_response.  Latent scores and noise are in tenths, the  *)
(* response in whole scale points.                                         *)
(***************************************************************************)
\* np.round of t tenths: to the nearest whole number, a half to the even one
RoundHalfEven(t) ==
    LET q == t \div 10
        r == t % 10
    IN  IF r < 5 THEN q
        ELSE IF r > 5 THEN q + 1
        ELSE IF q % 2 = 0 THEN q ELSE q + 1

OrdinalResponseUnclipped(latent, noise, lo, hi) == RoundHalfEven(latent + noise)

\* np.clip(int(np.round(latent_score + noise)), scale_min, scale_max)
OrdinalResponse(latent, noise, lo, hi) ==
    Clip(RoundHalfEven(latent + noise), lo, hi)

LatentGrid == {5 * k : k \in (-MaxLatent)..MaxLatent}
NoiseGrid == (-MaxNoise)..MaxNoise

\* an isolated call of generate_ordinal_response for one item of one row
InitItem ==
    \E i \in DOMAIN ITEMS, l \in LatentGrid :
        InitState(ARCHETYPES, 1,
                  [stage |-> "latent", item |-> ITEMS[i].name,
                   scale_min |-> ITEMS[i].scale_min,
                   scale_max |-> ITEMS[i].scale_max, latent |-> l])

ItemResponse ==
    /\ row.stage = "latent"
    /\ \E noise \in NoiseGrid :
          /\ row' = [stage |-> "response", item |-> row.item,
                     scale_min |-> row.scale_min, scale_max |-> row.scale_max,
                     latent |-> row.latent, noise |-> noise,
                     response |-> OrdinalResponse(row.latent, noise,
                                                  row.scale_min, row.scale_max)]
          /\ Consume(<<noise>>)
    /\ UNCHANGED <<pc, catalog, n_total, allocVars, scaleVars, tableVars,
                   error, runVars, callVars, trace>>

NextItem == ItemResponse

SpecItem == InitItem /\ [][NextItem]_vars

(***************************************************************************)
(* One archetype batch of generate_dataset.  In an assembled table every   *)
(* draw is taken from a bounded part of its support.                       *)
(***************************************************************************)
SetMin(S) == CHOOSE x \in S : \A y \in S : x <= y
SetMax(S) == CHOOSE x \in S : \A y \in S : x >= y

\* the bounded part: both ends of the support, or its lower end
TableEnds(S) == {SetMin(S), SetMax(S)}
TableLow(S) == {SetMin(S)}

TableExp == {ExpValue(1), ExpValue(2)}
TableControl == TableEnds(ControlCredits)
\* np.clip(np.random.normal(5.0, 1.2, n), 1, 7).astype(int)
HchallengeSupport == 1..7
\* np.clip(np.random.normal(2.8, 0.8, n), 1, 4).astype(int)
CSFcareerSupport == 1..4
\* midpoints of sample_time_use_midpoints
Midpoints == {0, 3, 8, 13, 18, 23, 28, 35}

\* the columns of arch_df, in order
BatchColumns ==
    <<"cohort", "hgrades", "bparented", "pell", "hapcl", "hprecalc13",
      "hchallenge", "cSFcareer", "hacadpr13", "tcare", "firstgen", "re_all",
      "living18", "sex", "x_FASt", "credit_dose">> \o ItemNames

\* the columns of arch_df whose cells are modelled
BatchData ==
    {"hgrades", "bparented", "hapcl", "hprecalc13", "hchallenge", "cSFcareer",
     "hacadpr13", "tcare", "sex", "x_FASt", "credit_dose"}

\* np.array([demographics['sex']] * n), or np.random.choice(['Female', 'Male'], ...)
SexSupport(arch) == IF arch.sex = "None" THEN {"Female", "Male"} ELSE {arch.sex}

\* what one row of a batch draws, as far as modelled columns depend on it
RowChoices(arch, fs) ==
    UNION { UNION { UNION { UNION { UNION {
        { [sex |-> sx, hgrades |-> hg, bparented |-> bp, hapcl |-> ap,
           hprecalc13 |-> 0, hchallenge |-> SetMin(HchallengeSupport),
           cSFcareer |-> SetMin(CSFcareerSupport),
           hacadpr13 |-> SetMin(Midpoints), tcare |-> SetMin(Midpoints),
           x_FASt |-> x, e |-> e, credit_dose |-> CreditDose(x, e)]
          : e \in DoseDraws(x, hg, ap, TableExp) }
        : x \in BernoulliSupport(Propensity(arch, hg, ap, bp, fs)) }
        : ap \in TableLow(HapclSupport) }
        : bp \in TableLow(BparentedSupport(arch)) }
        : hg \in TableLow(HgradesSupport(arch)) }
        : sx \in SexSupport(arch) }

\* a column of the batch
BatchCol(rows, c) == [i \in DOMAIN rows |-> rows[i][c]]

RECURSIVE Flatten(_)
Flatten(ss) == IF ss = <<>> THEN <<>> ELSE Head(ss) \o Flatten(Tail(ss))

\* if arch_id in [1, 2, 7]: hacadpr13 is shifted down and tcare up
TimeUseShiftedDown(id) == id \in {1, 2, 7}

\* the variates of shift_time_use_bins for the archetypes it is called for
ShiftDraws(id, n) ==
    Opaque(IF id \in {3, 4} THEN 2 * n ELSE 0)
    \o Opaque(IF TimeUseShiftedDown(id) THEN 2 * n ELSE 0)

\* the variates of the batch drawn before the first-generation flags
DemographicDraws(arch, n) ==
    Opaque(IF arch.re_all = "None" THEN n ELSE 0)
    \o Opaque(IF arch.sex = "None" THEN n ELSE 0)

\* the index np.random.choice picked for each row of an archetype that
\* declares no sex
SexDraws(arch, rows) ==
    IF arch.sex = "None"
    THEN [i \in DOMAIN rows |-> IF rows[i].sex = "Female" THEN 0 ELSE 1]
    ELSE <<>>

BatchStagesConstructsFirst ==
    <<"demographics", "background", "constructs", "treatment", "items">>

\* the stages of a batch, in the order of the loop body
BatchStages == <<"demographics", "background", "treatment", "constructs", "items">>

\* the variates a stage of a batch draws, in the order the code draws them
StageDraws(stage, arch, rows) ==
    LET n == Len(rows)
    IN  CASE stage = "demographics" ->
                Opaque(IF arch.re_all = "None" THEN n ELSE 0)
                \o SexDraws(arch, rows)
                \o Opaque(n)                                    \* firstgen
                \o Opaque(n)                                    \* pell
                \o Opaque(IF arch.living = "None" THEN n ELSE 0)
                \o Opaque(n)                                    \* cohort
          [] stage = "background" ->
                BatchCol(rows, "hgrades") \o BatchCol(rows, "bparented")
                \o BatchCol(rows, "hapcl") \o BatchCol(rows, "hprecalc13")
                \o BatchCol(rows, "hchallenge") \o BatchCol(rows, "cSFcareer")
                \o BatchCol(rows, "hacadpr13") \o BatchCol(rows, "tcare")
                \o ShiftDraws(arch.id, n)
          [] stage = "treatment" ->
                BatchCol(rows, "x_FASt") \o Flatten(BatchCol(rows, "e"))
          [] stage = "constructs" -> Opaque(6 * n)
          [] stage = "items" -> Opaque(Len(ITEMS) * n)

\* the variates of the first k stages of a batch
RECURSIVE DrawsUpTo(_, _, _)
DrawsUpTo(k, arch, rows) ==
    IF k = 0 THEN <<>>
    ELSE DrawsUpTo(k - 1, arch, rows) \o StageDraws(BatchStages[k], arch, rows)

\* every variate of a batch, in the order the code draws them
BatchDraws(arch, rows) == DrawsUpTo(Len(BatchStages), arch, rows)

\* the stages of a batch that starts at stream position pos
BatchLog(arch, rows, pos) ==
    [k \in DOMAIN BatchStages |->
        [stage |-> BatchStages[k], arch |-> arch.id,
         at |-> pos + Len(DrawsUpTo(k - 1, arch, rows))]]

\* min(1.0, pell_prob * pell_scale)
PellProb(arch, ps) == Min(PROB_ONE, (arch.pell * ps) \div 100)

\* np.random.binomial and np.random.choice raise ValueError on a negative
\* size and on a probability outside [0, 1]
BatchValid(arch, n, ps) ==
    /\ n >= 0
    /\ arch.firstgen >= 0 /\ arch.firstgen <= 100
    /\ PellProb(arch, ps) >= 0

\* variates drawn before the call that raises
DrawsBeforeError(arch, n, ps) ==
    IF n < 0 THEN <<>>
    ELSE IF arch.firstgen < 0 \/ arch.firstgen > 100
         THEN DemographicDraws(arch, n)
         ELSE DemographicDraws(arch, n) \o Opaque(n)

ColOf(t, c) == IF c \in DOMAIN t THEN t[c] ELSE <<>>

BatchAtReversed(ns, i) == ns[Len(ns) + 1 - i]

\* the i-th pair of archetype_ns.items(): a dict iterates in insertion order
BatchAt(ns, i) == ns[i]

\* one iteration of: for arch_id, n in archetype_ns.items(), with
\* all_data.append(arch_df) and archetype_ids.extend([arch_id] * n)
GenerateBatch ==
    /\ pc = "batch"
    /\ batch_i <= Len(archetype_ns)
    /\ LET id == BatchAt(archetype_ns, batch_i)[1]
           n == BatchAt(archetype_ns, batch_i)[2]
           arch == ArchById(catalog, id)
       IN  IF BatchValid(arch, n, pell_scale)
           THEN \E rows \in [1..n -> RowChoices(arch, fast_scale)] :
                  /\ Consume(BatchDraws(arch, rows))
                  /\ df' = [c \in BatchData |-> ColOf(df, c) \o BatchCol(rows, c)]
                  /\ columns' = BatchColumns
                  /\ archetype_ids' = archetype_ids \o [i \in 1..n |-> id]
                  /\ batch_i' = batch_i + 1
                  /\ trace' = trace \o BatchLog(arch, rows, rng_pos)
                  /\ UNCHANGED <<pc, error>>
           ELSE /\ Consume(DrawsBeforeError(arch, n, pell_scale))
                /\ pc' = "failed"
                /\ error' = "ValueError"
                /\ trace' = Logged(trace, BatchStages[1], id, rng_pos)
                /\ UNCHANGED <<batch_i, columns, df, archetype_ids>>
    /\ UNCHANGED <<catalog, n_total, allocVars, scaleVars, upstream, runVars, row, callVars>>


(***************************************************************************)
(* DatasetAssembler: the steps of generate_dataset after the batch loop.   *)
(***************************************************************************)
\* len(df)
NRows == Len(archetype_ids)

\* the bounded part of the permutations of 1..n: its rotations
TablePerms(n) == {[i \in 1..n |-> ((i + k - 1) % n) + 1] : k \in 0..(n - 1)}

\* s[idx]: the cells of s taken in the order of idx
Take(s, idx) == [i \in DOMAIN idx |-> s[idx[i]]]

\* df[name] = cells, for each name of new: a new column goes last
WithCols(t, new) ==
    [c \in (DOMAIN t) \cup (DOMAIN new) |-> IF c \in DOMAIN new THEN new[c] ELSE t[c]]

\* the names of names that cols lacks, in order
RECURSIVE Lacking(_, _)
Lacking(names, have) ==
    IF names = <<>> THEN <<>>
    ELSE IF Head(names) \in have THEN Lacking(Tail(names), have)
    ELSE <<Head(names)>> \o Lacking(Tail(names), have \cup {Head(names)})

WithNames(cols, names) == cols \o Lacking(names, SeqSet(cols))

\* pd.concat(all_data), np.random.permutation(len(df)), df.iloc[shuffle_idx],
\* archetype_ids[shuffle_idx]
UnshuffledLabels(ids, idx) == ids

\* archetype_ids[shuffle_idx]
ShuffledLabels(ids, idx) == Take(ids, idx)

\* pd.concat(all_data), np.random.permutation(len(df)), df.iloc[shuffle_idx]
\* and archetype_ids[shuffle_idx]
ConcatShuffle ==
    /\ pc = "batch"
    /\ batch_i > Len(archetype_ns)
    /\ \E shuffle_idx \in TablePerms(NRows) :
          /\ Consume(shuffle_idx)
          /\ df' = [c \in DOMAIN df |-> Take(df[c], shuffle_idx)]
          /\ archetype_ids' = ShuffledLabels(archetype_ids, shuffle_idx)
    /\ pc' = "id"
    /\ trace' = Logged(trace, "concat_shuffle", 0, rng_pos)
    /\ UNCHANGED <<catalog, n_total, allocVars, scaleVars, batch_i, columns,
                   upstream, error, runVars, row, callVars>>

\* df.insert(0, 'id', range(1, len(df) + 1))
AddId ==
    /\ pc = "id"
    /\ columns' = <<"id">> \o columns
    /\ df' = WithCols(df, [c \in {"id"} |-> [i \in 1..NRows |-> i]])
    /\ pc' = "derived"
    /\ trace' = Logged(trace, "id", 0, rng_pos)
    /\ UNCHANGED <<catalog, n_total, allocVars, scaleVars, batch_i,
                   archetype_ids, upstream, rngVars, error, runVars, row, callVars>>

CenteredFloorMean(col) ==
    [i \in DOMAIN col |-> Len(col) * (col[i] - (SeqSum(col) \div Len(col)))]

\* df[x] - df[x].mean(), times the number of rows
Centered(col) == [i \in DOMAIN col |-> Len(col) * col[i] - SeqSum(col)]

\* the centered columns of "Compute derived variables", in order
DerivedPairs ==
    << <<"hgrades", "hgrades_c">>, <<"bparented", "bparented_c">>,
       <<"hchallenge", "hchallenge_c">>, <<"cSFcareer", "cSFcareer_c">>,
       <<"hapcl", "hapcl_c">>, <<"hprecalc13", "hprecalc13_c">>,
       <<"hacadpr13", "hacadpr13_c">>, <<"tcare", "tcare_c">>,
       <<"credit_dose", "credit_dose_c">> >>

CenteredName(pairs) == [i \in DOMAIN pairs |-> pairs[i][2]]

BaseOf(pairs, c) == pairs[CHOOSE i \in DOMAIN pairs : pairs[i][2] = c][1]

CenteredCols(t, pairs) ==
    [c \in SeqSet(CenteredName(pairs)) |-> Centered(t[BaseOf(pairs, c)])]

\* df['XZ_c'] = df['x_FASt'] * df['credit_dose_c']
Product(a, b) == [i \in DOMAIN a |-> a[i] * b[i]]

Derived ==
    /\ pc = "derived"
    /\ LET t == WithCols(df, CenteredCols(df, DerivedPairs))
       IN  df' = WithCols(t, [c \in {"XZ_c"} |->
                                Product(t["x_FASt"], t["credit_dose_c"])])
    /\ columns' = WithNames(columns, CenteredName(DerivedPairs) \o <<"XZ_c">>)
    /\ pc' = "dc"
    /\ trace' = Logged(trace, "derived", 0, rng_pos)
    /\ UNCHANGED <<catalog, n_total, allocVars, scaleVars, batch_i,
                   archetype_ids, upstream, rngVars, error, runVars, row, callVars>>

\* "DC variables": trnsfr_cr, hdc17 (one variate per row), DC_student,
\* DE_group_temp
DCVars ==
    /\ pc = "dc"
    /\ \E d \in [1..NRows -> {<<>>} \cup {<<c>> : c \in TableControl}] :
          /\ \A i \in 1..NRows : d[i] \in CreditDraws(df["x_FASt"][i], TableControl)
          /\ Consume(Flatten(d) \o Opaque(NRows))
          /\ df' = WithCols(df, [c \in {"trnsfr_cr"} |->
                    [i \in 1..NRows |->
                        TrnsfrCr(df["x_FASt"][i], df["credit_dose"][i], d[i])]])
    /\ columns' = WithNames(columns,
                    <<"trnsfr_cr", "hdc17", "DC_student", "DE_group_temp">>)
    /\ pc' = "stem"
    /\ trace' = Logged(trace, "dc", 0, rng_pos)
    /\ UNCHANGED <<catalog, n_total, allocVars, scaleVars, batch_i,
                   archetype_ids, upstream, error, runVars, row, callVars>>

\* np.random.binomial(1, 0.25, len(df))
StemSupport == {0, 1}

\* "College GPA" (one normal variate per row) and "STEM major"
GradesStem ==
    /\ pc = "stem"
    /\ \E stem \in [1..NRows -> StemSupport] :
          /\ Consume(Opaque(NRows) \o stem)
          /\ df' = WithCols(df, [c \in {"StemMaj", "StemMaj_c"} |->
                                   IF c = "StemMaj" THEN stem ELSE Centered(stem)])
    /\ columns' = WithNames(columns, <<"Cgrades", "StemMaj", "StemMaj_c">>)
    /\ pc' = "rvars"
    /\ trace' = Logged(trace, "grades_stem", 0, rng_pos)
    /\ UNCHANGED <<catalog, n_total, allocVars, scaleVars, batch_i,
                   archetype_ids, upstream, error, runVars, row, callVars>>

\* np.random.randint(-15, 35, len(df))
RSupport == -15..34

\* df['r_minus'] = df['r'] / 10 - 0.5, in tenths
RMinus(r) == [i \in DOMAIN r |-> r[i] - 5]

\* df['r_plus'] = df['r'] / 10 + 0.5, in tenths
RPlus(r) == [i \in DOMAIN r |-> r[i] + 5]

\* "r variables": np.random.randint(-15, 35, len(df)) and its two shifts
RVars ==
    /\ pc = "rvars"
    /\ \E r \in [1..NRows -> TableLow(RSupport)] :
          /\ Consume(r)
          /\ df' = WithCols(df, [c \in {"r", "r_minus", "r_plus"} |->
                                   CASE c = "r" -> r
                                     [] c = "r_minus" -> RMinus(r)
                                     [] c = "r_plus" -> RPlus(r)])
    /\ columns' = WithNames(columns, <<"r", "r_minus", "r_plus">>)
    /\ pc' = "missing"
    /\ trace' = Logged(trace, "r", 0, rng_pos)
    /\ UNCHANGED <<catalog, n_total, allocVars, scaleVars, batch_i,
                   archetype_ids, upstream, error, runVars, row, callVars>>

\* the columns apply_missingness masks: mhw_items and qi_items
MaskedItems ==
    <<"MHWdacad", "MHWdlonely", "MHWdmental", "MHWdexhaust", "MHWdsleep",
      "MHWdfinancial", "QIadmin", "QIstudent", "QIadvisor", "QIfaculty",
      "QIstaff">>

MissingRateQiResponse(col, label, cell) ==
    IF col \in {"MHWdacad", "MHWdlonely", "MHWdmental", "MHWdexhaust",
                "MHWdsleep", "MHWdfinancial"}
    THEN (IF label \in {3, 4} THEN 10 ELSE 5)
         + (IF col \in {"MHWdmental", "MHWdlonely"} /\ cell >= 5 THEN 5 ELSE 0)
    ELSE IF label \in {1, 2, 7} /\ cell < 5 THEN 6 ELSE 3

MissingRateAnyHigh(col, label, cell) ==
    IF col \in {"MHWdacad", "MHWdlonely", "MHWdmental", "MHWdexhaust",
                "MHWdsleep", "MHWdfinancial"}
    THEN (IF label \in {3, 4} THEN 10 ELSE 5) + (IF cell >= 5 THEN 5 ELSE 0)
    ELSE IF label \in {1, 2, 7} THEN 6 ELSE 3

\* the rate of a cell, per cent: for an MHW item 0.05, 0.10 for archetypes 3
\* and 4, plus 0.05 for a MHWdmental or MHWdlonely cell >= 5; for a QI item
\* 0.06 for archetypes 1, 2 and 7, else 0.03
MissingRate(col, label, cell) ==
    IF col \in {"MHWdacad", "MHWdlonely", "MHWdmental", "MHWdexhaust",
                "MHWdsleep", "MHWdfinancial"}
    THEN (IF label \in {3, 4} THEN 10 ELSE 5)
         + (IF col \in {"MHWdmental", "MHWdlonely"} /\ cell >= 5 THEN 5 ELSE 0)
    ELSE IF label \in {1, 2, 7} THEN 6 ELSE 3

\* np.random.random() of a modelled cell, per cent: one value between each
\* two neighbouring rates 0.03, 0.05, 0.06, 0.10, 0.15 that an archetype group
\* or a response separates
UniformDraws == {2, 4, 9, 14}

ZeroedCell(u, rate, cell) == IF u < rate THEN 0 ELSE cell

\* if np.random.random() < rate: df.loc[i, col] = np.nan
MaskedCell(u, rate, cell) == IF u < rate THEN NaN ELSE cell

\* the masked columns whose cells are modelled, in the order of the loops
ModelledMasked(t) == SelectSeq(MaskedItems, LAMBDA c : c \in DOMAIN t)

\* the variates of apply_missingness in the order it draws them: column by
\* column, row by row; u[k][i] is the variate of row i of the k-th modelled
\* masked column
MissingDraws(t, n, u) ==
    LET cols == ModelledMasked(t)
        Pos(c) == CHOOSE k \in DOMAIN cols : cols[k] = c
    IN  Flatten([j \in DOMAIN MaskedItems |->
                   IF MaskedItems[j] \in DOMAIN t
                   THEN u[Pos(MaskedItems[j])]
                   ELSE Opaque(n)])

FirstItemVariate(u, k, i) == u[1][i]

\* the np.random.random() evaluated in the body of the loops for row i of the
\* k-th modelled column
CellVariate(u, k, i) == u[k][i]

\* the table after the two loops of apply_missingness
Masked(t, labels, u) ==
    LET cols == ModelledMasked(t)
        Pos(c) == CHOOSE k \in DOMAIN cols : cols[k] = c
    IN  [c \in DOMAIN t |->
            IF c \in SeqSet(cols)
            THEN [i \in DOMAIN t[c] |->
                    MaskedCell(CellVariate(u, Pos(c), i),
                               MissingRate(c, labels[i], t[c][i]), t[c][i])]
            ELSE t[c]]

\* df = apply_missingness(df, archetype_ids): one variate per cell of the
\* eleven masked columns
ApplyMissingness ==
    /\ pc = "missing"
    /\ \E u \in [1..Len(ModelledMasked(df)) -> [1..NRows -> UniformDraws]] :
          /\ Consume(MissingDraws(df, NRows, u))
          /\ df' = Masked(df, archetype_ids, u)
    /\ pc' = "reorder"
    /\ trace' = Logged(trace, "missingness", 0, rng_pos)
    /\ UNCHANGED <<catalog, n_total, allocVars, scaleVars, batch_i, columns,
                   archetype_ids, upstream, error, runVars, row, callVars>>

col_order ==
    <<"cohort", "hgrades", "hgrades_c", "Cgrades", "bparented", "bparented_c",
      "pell", "hapcl", "hapcl_c", "hprecalc13", "hprecalc13_c",
      "hchallenge", "hchallenge_c",
      "cSFcareer", "cSFcareer_c", "hacadpr13", "hacadpr13_c", "tcare", "tcare_c",
      "firstgen", "re_all", "living18", "sex",
      "StemMaj", "StemMaj_c", "trnsfr_cr", "x_FASt", "credit_dose",
      "credit_dose_c", "XZ_c",
      "r", "r_minus", "r_plus",
      "sbmyself", "sbvalued", "sbcommunity",
      "pgthink", "pganalyze", "pgwork", "pgvalues", "pgprobsolve",
      "SEwellness", "SEnonacad", "SEactivities", "SEacademic", "SEdiverse",
      "evalexp", "sameinst",
      "MHWdacad", "MHWdlonely", "MHWdmental", "MHWdexhaust", "MHWdsleep",
      "MHWdfinancial",
      "QIstudent", "QIadvisor", "QIfaculty", "QIstaff", "QIadmin",
      "id", "DE_group_temp", "hdc17", "DC_student">>

NoFilledCols(cols, order) == {}

\* for col in col_order: if col not in df.columns: df[col] = np.nan
FilledCols(cols, order) == SeqSet(order) \ SeqSet(cols)

\* the cells of df[col_order] after the fill
Reordered(t, cols, order, n) ==
    LET filled == FilledCols(cols, order)
        kept == (DOMAIN t) \cap SeqSet(order)
    IN  [c \in kept \cup filled |->
            IF c \in filled THEN [i \in 1..n |-> NaN] ELSE t[c]]

\* df.columns after df = df[col_order]
ReorderedNames(cols, order) == order

\* "Reorder columns to match original dataset"
Reorder ==
    /\ pc = "reorder"
    /\ upstream' = SeqSet(columns)
    /\ df' = Reordered(df, columns, col_order, NRows)
    /\ columns' = ReorderedNames(columns, col_order)
    /\ pc' = "return"
    /\ trace' = Logged(trace, "reorder", 0, rng_pos)
    /\ UNCHANGED <<catalog, n_total, allocVars, scaleVars, batch_i,
                   archetype_ids, rngVars, error, runVars, row, callVars>>

\* what generate_dataset returns, with the stream position it returns at
Output == [set |-> TRUE, columns |-> columns, df |-> df,
           archetype_ids |-> archetype_ids, end_pos |-> rng_pos]

\* return (df, archetype_ids)
Return ==
    /\ pc = "return"
    /\ pc' = "done"
    /\ first_out' = IF procs = 1 /\ calls = 1 THEN Output ELSE first_out
    /\ UNCHANGED <<catalog, n_total, allocVars, scaleVars, tableVars, rngVars,
                   error, calls, procs, start_pos, row, callVars, trace>>

(***************************************************************************)
(* The reorder step on the table of an upstream that populated a different *)
(* set of columns: the pipeline's columns without up to MaxDropped of the  *)
(* schema's, and with columns the schema does not have.                    *)
(***************************************************************************)
\* df.columns of the pipeline when the reorder step begins
PipelineColumns ==
    <<"id">> \o BatchColumns \o CenteredName(DerivedPairs)
    \o <<"XZ_c", "trnsfr_cr", "hdc17", "DC_student", "DE_group_temp",
         "Cgrades", "StemMaj", "StemMaj_c", "r", "r_minus", "r_plus">>

ExtraColumns == <<"archetype_id", "archetype_name">>

\* the sets of at most k schema columns
RECURSIVE DropSets(_)
DropSets(k) ==
    IF k = 0 THEN {{}}
    ELSE DropSets(k - 1)
         \cup {D \cup {c} : D \in DropSets(k - 1), c \in SeqSet(col_order)}

UpstreamColumns(dropped, extra) ==
    SelectSeq(PipelineColumns, LAMBDA c : c \notin dropped)
    \o SelectSeq(ExtraColumns, LAMBDA c : c \in extra)

InitReorder ==
    \E dropped \in DropSets(MaxDropped), extra \in SUBSET SeqSet(ExtraColumns) :
        /\ pc = "reorder"
        /\ catalog = ARCHETYPES
        /\ n_total = MinN
        /\ archetype_ns = <<>>
        /\ alloc_i = 1
        /\ total_assigned = 0
        /\ fast_scale = 0
        /\ pell_scale = 0
        /\ batch_i = 1
        /\ columns = UpstreamColumns(dropped, extra)
        /\ df = [c \in SeqSet(UpstreamColumns(dropped, extra)) |->
                    [i \in 1..MinN |-> i]]
        /\ archetype_ids = [i \in 1..MinN |-> MaxArchId(ARCHETYPES)]
        /\ upstream = {}
        /\ rng_pos = SeedPos
        /\ tape = <<>>
        /\ error = "none"
        /\ calls = 1
        /\ procs = 1
        /\ start_pos = 0
        /\ first_out = NoOut
        /\ row = NoRow
        /\ sim = NoSim
        /\ stat = NoStat
        /\ trace = <<>>

NextReorder == Reorder \/ Return

SpecReorder == InitReorder /\ [][NextReorder]_vars

(***************************************************************************)
(* apply_missingness and the steps after it on a table of two rows whose   *)
(* item cells are known: two distress items, an engagement item and an     *)
(* item of another scale, next to the id, a covariate and the treatment    *)
(* columns.  The rows differ in treatment, dose and engagement response.   *)
(***************************************************************************)
\* a cell of a distress item below and at the high-distress threshold
DistressCells == {2, 5}

\* archetypes of the three rate groups: commuter, Asian, other
LabelGroups == {1, 3, 13}

\* the tables of two rows with cells of S
RowPairs(S) == {<<a, b>> : a \in S, b \in S}

\* the two items whose rate rises with the response
MarItems == {"MHWdmental", "MHWdlonely"}

MissingTable(n, item, distress, dose) ==
    [c \in {"id", "hgrades", "x_FASt", "credit_dose", "sbvalued",
            item, "MHWdexhaust", "QIadmin"} |->
        CASE c = "id" -> [i \in 1..n |-> i]
          [] c = "hgrades" -> [i \in 1..n |-> 6]
          [] c = "x_FASt" -> [i \in 1..n |-> IF dose[i] > 0 THEN 1 ELSE 0]
          [] c = "credit_dose" -> dose
          [] c = "sbvalued" -> [i \in 1..n |-> 3]
          [] c = item -> distress
          [] c = "MHWdexhaust" -> [i \in 1..n |-> 7 - i]
          [] c = "QIadmin" -> [i \in 1..n |-> 2 + 2 * i]]

InitMissing ==
    \E item \in MarItems, distress \in RowPairs(DistressCells),
       labels \in RowPairs(LabelGroups), dose \in {<<0, 35>>} :
        /\ pc = "missing"
        /\ catalog = ARCHETYPES
        /\ n_total = Len(labels)
        /\ archetype_ns = <<>>
        /\ alloc_i = 1
        /\ total_assigned = 0
        /\ fast_scale = 0
        /\ pell_scale = 0
        /\ batch_i = 1
        /\ columns = PipelineColumns
        /\ df = MissingTable(Len(labels), item, distress, dose)
        /\ archetype_ids = labels
        /\ upstream = {}
        /\ rng_pos = SeedPos
        /\ tape = <<>>
        /\ error = "none"
        /\ calls = 1
        /\ procs = 1
        /\ start_pos = 0
        /\ first_out = NoOut
        /\ row = NoRow
        /\ sim = NoSim
        /\ stat = NoStat
        /\ trace = <<>>

NextMissing == ApplyMissingness \/ Reorder \/ Return

SpecMissing == InitMissing /\ [][NextMissing]_vars

(***************************************************************************)
(* One run of the script with the documented catalog.                      *)
(***************************************************************************)
Totals == MinN..MaxN

Init == \E n \in Totals : InitWith(ARCHETYPES, n)

Generate ==
    \/ Invoke \/ AllocStep \/ AllocLast \/ ComputeScales \/ GenerateBatch
    \/ ConcatShuffle \/ AddId \/ Derived \/ DCVars \/ GradesStem \/ RVars
    \/ ApplyMissingness \/ Reorder \/ Return

Next == Generate

Spec == Init /\ [][Next]_vars

(***************************************************************************)
(* Runs with other archetype catalogs: two archetypes whose prevalences    *)
(* and probabilities are and are not what a catalog may declare.           *)
(***************************************************************************)
ConfigPrevalences == {<<500, 500>>, <<0, 0>>, <<1500, 500>>, <<-500, 500>>}
ConfigFirstgen == {60, 150}
ConfigPell == {60, 150, -10}
ConfigFast == {20, 150}

ConfigCatalog(prev, fg, pell, fast) ==
    << [ARCHETYPES[1] EXCEPT !.prevalence = prev[1], !.firstgen = fg,
                             !.pell = pell, !.fast_prob = fast],
       [ARCHETYPES[2] EXCEPT !.prevalence = prev[2]] >>

ConfigCatalogs ==
    {ConfigCatalog(prev, fg, pell, fast) :
        prev \in ConfigPrevalences, fg \in ConfigFirstgen,
        pell \in ConfigPell, fast \in ConfigFast}

\* the prevalences do not sum to a positive value, or a declared probability
\* lies outside [0, 1]
InvalidCatalog(cat) ==
    \/ SeqSum([i \in DOMAIN cat |-> cat[i].prevalence]) <= 0
    \/ \E i \in DOMAIN cat :
          \/ cat[i].prevalence < 0 \/ cat[i].prevalence > 1000
          \/ cat[i].firstgen < 0 \/ cat[i].firstgen > 100
          \/ cat[i].pell < 0 \/ cat[i].pell > 100
          \/ cat[i].fast_prob < 0 \/ cat[i].fast_prob > 100

InitConfig == \E cat \in ConfigCatalogs : InitWith(cat, MinN)

NextConfig == Generate

SpecConfig == InitConfig /\ [][NextConfig]_vars

(***************************************************************************)
(* Runs with catalogs that list the same three archetypes in every order.  *)
(***************************************************************************)
OrderEntries ==
    << [ARCHETYPES[1] EXCEPT !.prevalence = 500],
       [ARCHETYPES[2] EXCEPT !.prevalence = 500],
       [ARCHETYPES[13] EXCEPT !.prevalence = 0] >>

OrderCatalogs ==
    {Take(OrderEntries, q) :
        q \in {f \in [1..3 -> 1..3] : \A i, j \in 1..3 : f[i] = f[j] => i = j}}

InitOrder == \E cat \in OrderCatalogs : InitWith(cat, MinN)

NextOrder == Generate

SpecOrder == InitOrder /\ [][NextOrder]_vars

(***************************************************************************)
(* Two runs of the generator: the script is run again in a new process, or *)
(* generate_dataset is called again in the same process.                   *)
(***************************************************************************)
UnseededPos(p) == p

\* the position of the stream after np.random.seed(42), whatever it was
SeededPos(p) == SeedPos

\* the locals of generate_dataset at the start of a call
ResetLocals ==
    /\ archetype_ns' = <<>>
    /\ alloc_i' = 1
    /\ total_assigned' = 0
    /\ fast_scale' = 0
    /\ pell_scale' = 0
    /\ batch_i' = 1
    /\ columns' = <<>>
    /\ df' = <<>>
    /\ archetype_ids' = <<>>
    /\ upstream' = {}
    /\ trace' = <<>>

\* the script is run again: the import seeds the stream of the new process,
\* which repeats what the seeded stream revealed before
Restart ==
    /\ pc = "done"
    /\ procs = 1
    /\ calls = 1
    /\ pc' = "idle"
    /\ procs' = 2
    /\ calls' = 0
    /\ rng_pos' = SeededPos(rng_pos)
    /\ start_pos' = 0
    /\ ResetLocals
    /\ UNCHANGED <<catalog, n_total, tape, error, first_out, row, callVars>>

\* generate_dataset() is called again in the process that already ran it:
\* nothing seeds the stream, and no later process is compared with this one
Reinvoke ==
    /\ pc = "done"
    /\ procs = 1
    /\ calls = 1
    /\ pc' = "alloc"
    /\ calls' = 2
    /\ start_pos' = rng_pos
    /\ ResetLocals
    /\ tape' = <<>>
    /\ first_out' = NoOut
    /\ UNCHANGED <<catalog, n_total, rng_pos, error, procs, row, callVars>>

InitRepro == InitWith(ARCHETYPES, MinN)

NextRepro == Generate \/ Restart \/ Reinvoke

SpecRepro == InitRepro /\ [][NextRepro]_vars

(***************************************************************************)
(* sample_time_use_midpoints(n, probs) on vectors of eight weights, in the  *)
(* unit of probabilities.  The probabilities handed to np.random.choice    *)
(* are the fractions num[k] / den.                                         *)
(***************************************************************************)
\* midpoints = np.array([0, 3, 8, 13, 18, 23, 28, 35])
MidpointSeq == <<0, 3, 8, 13, 18, 23, 28, 35>>

\* a weight of a vector: nothing, or a half
WeightGrid == {0, PROB_ONE \div 2}

\* if total > 0 and not np.isclose(total, 1.0): probs = probs / total
NormalizedProbs(probs) ==
    LET total == SeqSum(probs)
    IN  IF total > 0 /\ total # PROB_ONE
        THEN [num |-> probs, den |-> total]
        ELSE [num |-> probs, den |-> PROB_ONE]

\* np.random.choice(a, size, p) raises ValueError unless the probabilities
\* are non-negative and sum to 1
ChoiceValid(p) ==
    /\ \A k \in DOMAIN p.num : p.num[k] >= 0
    /\ SeqSum(p.num) = p.den

\* the values np.random.choice can return
ChoiceSupport(p) == {MidpointSeq[k] : k \in {j \in DOMAIN p.num : p.num[j] > 0}}

InitTimeUse ==
    \E n \in 1..MaxSample, probs \in [DOMAIN MidpointSeq -> WeightGrid] :
        InitState(ARCHETYPES, 1, [stage |-> "weights", n |-> n, probs |-> probs])

\* sample_time_use_midpoints(n, probs)
SampleTimeUse ==
    /\ row.stage = "weights"
    /\ LET p == NormalizedProbs(row.probs)
       IN  IF ChoiceValid(p)
           THEN \E values \in [1..row.n -> ChoiceSupport(p)] :
                  /\ row' = [stage |-> "sampled", n |-> row.n, probs |-> row.probs,
                             values |-> values]
                  /\ Consume(values)
           ELSE /\ row' = [stage |-> "raised", n |-> row.n, probs |-> row.probs,
                           exc |-> "ValueError"]
                /\ UNCHANGED rngVars
    /\ UNCHANGED <<pc, catalog, n_total, allocVars, scaleVars, tableVars,
                   error, runVars, callVars, trace>>

NextTimeUse == SampleTimeUse

SpecTimeUse == InitTimeUse /\ [][NextTimeUse]_vars

(***************************************************************************)
(* generate_construct_scores on a batch of two rows.  Construct scores and *)
(* their shifts are in millionths of a scale point.                        *)
(***************************************************************************)
MainEffectUnscaled(a, x) == IF x = 1 THEN 15000 ELSE 0

\* EmoDiss[i] += effects['a1'] * 1.5, for a row with x_FASt == 1
MainEffect(a, x) == IF x = 1 THEN a * 15000 ELSE 0

ModerationUnsigned(a, amp, x, dose) ==
    IF x = 1 /\ dose > 0
    THEN a * (IF amp < 0 THEN -amp ELSE amp) * dose * 3
    ELSE 0

\* EmoDiss[i] += effects['a1'] * dose_amp * credit_dose[i] * 0.3, for a row
\* with x_FASt == 1 and credit_dose > 0
Moderation(a, amp, x, dose) ==
    IF x = 1 /\ dose > 0 THEN a * amp * dose * 3 ELSE 0

MediatorShiftAnyRow(a, amp, x, dose) == a * 15000 + Moderation(a, amp, x, dose)

\* what the treatment loop adds to a mediator whose main effect is a
MediatorShift(a, amp, x, dose) == MainEffect(a, x) + Moderation(a, amp, x, dose)

\* np.random.normal(base[construct], sd): the base score and a deviation
ConstructNoise == {-500000, 500000}

BaselineScore(arch, k, noise) == arch.base_responses[k] * 100000 + noise

\* the deviations of the four outcome draws of a row (Belong, Gains,
\* SupportEnv, Satisf): the bounded part of four normal variates
OutcomeNoise ==
    { <<-300000, 200000, -100000, 400000>>, <<300000, -200000, 100000, -400000>> }

DistressEffectPositive(emo) == ((emo - 3500000) * 12) \div 100

\* distress_effect = (EmoDiss[i] - 3.5) * -0.12
DistressEffect(emo) == ((emo - 3500000) * (-12)) \div 100

\* engage_effect = (QualEngag[i] - 5.0) * 0.10
EngageEffect(qual) == ((qual - 5000000) * 10) \div 100

\* what the second loop adds to outcome k of a row whose mediators are emo and
\* qual: Belong and Satisf take both effects whole, Gains 0.8 and 0.7 of
\* them, SupportEnv 0.9 and 0.8
OutcomeShift(k, emo, qual) ==
    LET de == DistressEffect(emo)
        ee == EngageEffect(qual)
    IN  CASE k = 3 -> de + ee
          [] k = 4 -> ((de * 8) \div 10) + ((ee * 7) \div 10)
          [] k = 5 -> ((de * 9) \div 10) + ((ee * 8) \div 10)
          [] k = 6 -> de + ee

\* catalogs of one archetype with other effect sizes and amplifications
EffectSizes == {-20, 0, 25}
Amplifiers == {-5, 0, 12}

EffectCatalogs ==
    { << [ARCHETYPES[1] EXCEPT !.a1 = a1, !.a2 = a2, !.dose_amplify = amp] >> :
         a1 \in EffectSizes, a2 \in EffectSizes, amp \in Amplifiers }

\* x_FASt and credit_dose of a row as generate_treatment_and_dose returns them
ConstructDoses == {0, 35, 680}
TreatedRows == {<<0, 0>>} \cup {<<1, d>> : d \in ConstructDoses}

InitConstruct ==
    \E cat \in {ARCHETYPES} \cup EffectCatalogs :
    \E i \in DOMAIN cat, r1 \in TreatedRows, r2 \in TreatedRows :
        InitState(cat, 2,
                  [stage |-> "treated_batch", arch |-> cat[i].id,
                   x_FASt |-> <<r1[1], r2[1]>>,
                   credit_dose |-> <<r1[2], r2[2]>>])

\* generate_construct_scores(archetype_id, x_FASt, credit_dose, n): six
\* normal variates per row, the two mediators shifted for treated rows, then
\* the four outcomes shifted by the effects of the final mediators
ConstructScores ==
    /\ row.stage = "treated_batch"
    /\ LET arch == ArchById(catalog, row.arch)
           n == Len(row.x_FASt)
       IN  \E emo \in [1..n -> ConstructNoise], qual \in [1..n -> ConstructNoise],
              out \in [1..n -> OutcomeNoise] :
              LET EmoDiss == [i \in 1..n |-> BaselineScore(arch, 1, emo[i])
                                + MediatorShift(arch.a1, arch.dose_amplify,
                                      row.x_FASt[i], row.credit_dose[i])]
                  QualEngag == [i \in 1..n |-> BaselineScore(arch, 2, qual[i])
                                + MediatorShift(arch.a2, arch.dose_amplify,
                                      row.x_FASt[i], row.credit_dose[i])]
                  Base(k) == [i \in 1..n |-> BaselineScore(arch, k, out[i][k - 2])]
                  Outcome(k) == [i \in 1..n |-> Base(k)[i]
                                + OutcomeShift(k, EmoDiss[i], QualEngag[i])]
              IN  /\ row' = [stage |-> "scored", arch |-> row.arch,
                             x_FASt |-> row.x_FASt, credit_dose |-> row.credit_dose,
                             EmoDiss_base |->
                                [i \in 1..n |-> BaselineScore(arch, 1, emo[i])],
                             QualEngag_base |->
                                [i \in 1..n |-> BaselineScore(arch, 2, qual[i])],
                             Belong_base |-> Base(3), Gains_base |-> Base(4),
                             SupportEnv_base |-> Base(5), Satisf_base |-> Base(6),
                             EmoDiss |-> EmoDiss, QualEngag |-> QualEngag,
                             Belong |-> Outcome(3), Gains |-> Outcome(4),
                             SupportEnv |-> Outcome(5), Satisf |-> Outcome(6)]
                  /\ Consume(emo \o qual
                             \o [i \in 1..n |-> out[i][1]] \o [i \in 1..n |-> out[i][2]]
                             \o [i \in 1..n |-> out[i][3]] \o [i \in 1..n |-> out[i][4]])
    /\ UNCHANGED <<pc, catalog, n_total, allocVars, scaleVars, tableVars,
                   error, runVars, callVars, trace>>

NextConstruct == ConstructScores

SpecConstruct == InitConstruct /\ [][NextConstruct]_vars

(***************************************************************************)
(* MonteCarloSimulator (src/process_sem/monte_carlo.py) with the default   *)
(* save_intermediate = False.  What the data generator and the estimator   *)
(* of an iteration do is a choice among their three outcomes.              *)
(***************************************************************************)
IterationOutcomes ==
    {"success", "not_converged", "generator_raised", "estimator_raised"}

\* the outcomes that leave the try block of run_single_iteration through
\* `except Exception as e`
RaisedOutcomes == {"generator_raised", "estimator_raised"}

\* run_single_iteration: the result dict of iteration i; `error` tells
\* whether the dict carries the 'error' key with str(e)
IterationResult(i, outcome) ==
    IF outcome \in RaisedOutcomes
    THEN [iteration |-> i, converged |-> FALSE, error |-> TRUE]
    ELSE [iteration |-> i, converged |-> (outcome = "success"), error |-> FALSE]

\* _process_results: one row per result whose 'converged' is true
ProcessResults(results) ==
    LET kept == SelectSeq(results, LAMBDA r : r.converged)
    IN  [k \in DOMAIN kept |-> [iteration |-> kept[k].iteration]]

\* a run() that appended to the results of the previous run
KeptResults(previous) == previous

\* run(): self.results = []
ResetResults(previous) == <<>>

\* MonteCarloSimulator(config): self.results = [].  `runs` counts the calls
\* of run() and `did` remembers what the callables of each iteration of the
\* current run did.
InitSim ==
    \E n \in 0..MaxSims :
        InitAll(ARCHETYPES, 1, NoRow,
                [stage |-> "constructed", n_simulations |-> n, i |-> 0,
                 results |-> <<>>, returned |-> <<>>, runs |-> 0,
                 did |-> <<>>],
                NoStat)

\* run(): self.results = [] and the loop begins; run() may be called again
\* on a simulator whose earlier run has returned
SimRun ==
    /\ sim.stage \in {"constructed", "returned"}
    /\ sim.runs < MaxRuns
    /\ sim' = [sim EXCEPT !.stage = "loop", !.i = 0,
                          !.results = ResetResults(@),
                          !.runs = @ + 1, !.did = <<>>]
    /\ UNCHANGED <<pc, catalog, n_total, allocVars, scaleVars, tableVars,
                   rngVars, error, runVars, row, stat, trace>>

\* one iteration of: for i in range(self.config.n_simulations)
SimIteration ==
    /\ sim.stage = "loop"
    /\ sim.i < sim.n_simulations
    /\ \E outcome \in IterationOutcomes :
          sim' = [sim EXCEPT !.results = Append(@, IterationResult(sim.i, outcome)),
                             !.i = @ + 1,
                             !.did = Append(@, outcome)]
    /\ UNCHANGED <<pc, catalog, n_total, allocVars, scaleVars, tableVars,
                   rngVars, error, runVars, row, stat, trace>>

\* results_df = self._process_results(); return results_df
SimReturn ==
    /\ sim.stage = "loop"
    /\ sim.i = sim.n_simulations
    /\ sim' = [sim EXCEPT !.stage = "returned",
                          !.returned = ProcessResults(sim.results)]
    /\ UNCHANGED <<pc, catalog, n_total, allocVars, scaleVars, tableVars,
                   rngVars, error, runVars, row, stat, trace>>

NextSim == SimRun \/ SimIteration \/ SimReturn

SpecSim == InitSim /\ [][NextSim]_vars

(***************************************************************************)
(* The weighted-statistic helpers of plot_psw_balance_loveplot.py,         *)
(* plot_descriptives.py and build_paper_tables_docx.py.  A result is NaN,  *)
(* an exception, or the value num / den (its square root if root).         *)
(***************************************************************************)
NaNResult == [kind |-> "nan"]
Raised(exc) == [kind |-> "raised", exc |-> exc]
Value(num, den, root) == [kind |-> "value", num |-> num, den |-> den, root |-> root]

\* x[mask], w[mask]: the pairs neither of whose members is NaN
Pairs(x, w) ==
    LET idx == SelectSeq([i \in DOMAIN x |-> i],
                         LAMBDA i : x[i] # NaN /\ w[i] # NaN)
    IN  [k \in DOMAIN idx |-> <<x[idx[k]], w[idx[k]]>>]

SumW(ps) == SeqSum([k \in DOMAIN ps |-> ps[k][2]])
SumWX(ps) == SeqSum([k \in DOMAIN ps |-> ps[k][2] * ps[k][1]])
SumWXX(ps) == SeqSum([k \in DOMAIN ps |-> ps[k][2] * ps[k][1] * ps[k][1]])

\* sum(w * (x - mu)^2) / sum(w) with mu = sum(w * x) / sum(w)
WeightedVariance(ps, root) ==
    Value(SumWXX(ps) * SumW(ps) - SumWX(ps) * SumWX(ps), SumW(ps) * SumW(ps), root)

\* plot_psw_balance_loveplot.py: _weighted_mean
Loveplot_weighted_mean(x, w) ==
    LET ps == Pairs(x, w)
    IN  IF Len(ps) = 0 THEN NaNResult
        ELSE IF SumW(ps) <= 0 THEN NaNResult
        ELSE Value(SumWX(ps), SumW(ps), FALSE)

\* plot_psw_balance_loveplot.py: _weighted_var
Loveplot_weighted_var(x, w) ==
    LET ps == Pairs(x, w)
    IN  IF Len(ps) < 2 THEN NaNResult
        ELSE IF SumW(ps) <= 0 THEN NaNResult
        ELSE WeightedVariance(ps, FALSE)

\* x[t == g]
Group(x, t, g) ==
    LET idx == SelectSeq([i \in DOMAIN x |-> i], LAMBDA i : t[i] = g)
    IN  [k \in DOMAIN idx |-> x[idx[k]]]

\* plot_psw_balance_loveplot.py: _smd_continuous with weights
Loveplot_smd_continuous(x, t, w) ==
    LET m0 == Loveplot_weighted_mean(Group(x, t, 0), Group(w, t, 0))
        m1 == Loveplot_weighted_mean(Group(x, t, 1), Group(w, t, 1))
        v0 == Loveplot_weighted_var(Group(x, t, 0), Group(w, t, 0))
        v1 == Loveplot_weighted_var(Group(x, t, 1), Group(w, t, 1))
    IN  IF v0.kind = "nan" \/ v1.kind = "nan" THEN NaNResult
        ELSE IF v0.num = 0 /\ v1.num = 0 THEN NaNResult
        ELSE Value(m1.num * m0.den - m0.num * m1.den, m1.den * m0.den, FALSE)

\* np.average(a, weights=w): ZeroDivisionError when the weights sum to zero
NpAverage(num, den, root) ==
    IF den = 0 THEN Raised("ZeroDivisionError") ELSE Value(num, den, root)

\* plot_descriptives.py: weighted_mean
weighted_mean(x, w) ==
    LET ps == Pairs(x, w)
    IN  IF Len(ps) = 0 THEN NaNResult
        ELSE NpAverage(SumWX(ps), SumW(ps), FALSE)

\* plot_descriptives.py: weighted_std
weighted_std(x, w) ==
    LET ps == Pairs(x, w)
    IN  IF Len(ps) = 0 THEN NaNResult
        ELSE IF NpAverage(SumWX(ps), SumW(ps), FALSE).kind = "raised"
        THEN Raised("ZeroDivisionError")
        ELSE WeightedVariance(ps, TRUE)

\* build_paper_tables_docx.py: w_mean
w_mean(x, w) ==
    LET ps == Pairs(x, w)
    IN  IF SumW(ps) # 0 THEN Value(SumWX(ps), SumW(ps), FALSE) ELSE NaNResult

\* build_paper_tables_docx.py: w_sd
w_sd(x, w) ==
    LET ps == Pairs(x, w)
    IN  IF SumW(ps) # 0 THEN WeightedVariance(ps, TRUE) ELSE NaNResult

Helpers ==
    {"_weighted_mean", "_weighted_var", "_smd_continuous", "weighted_mean",
     "weighted_std", "w_mean", "w_sd"}

\* what the helper returns, or what it raises
HelperResult(helper, x, t, w) ==
    CASE helper = "_weighted_mean" -> Loveplot_weighted_mean(x, w)
      [] helper = "_weighted_var" -> Loveplot_weighted_var(x, w)
      [] helper = "_smd_continuous" -> Loveplot_smd_continuous(x, t, w)
      [] helper = "weighted_mean" -> weighted_mean(x, w)
      [] helper = "weighted_std" -> weighted_std(x, w)
      [] helper = "w_mean" -> w_mean(x, w)
      [] helper = "w_sd" -> w_sd(x, w)

\* values and weights of a sample: missing, or a number
SampleValues == {NaN, 1, 3}
SampleWeights == {NaN, 0, 2}

InitStat ==
    \E n \in 0..MaxSample :
    \E x \in [1..n -> SampleValues], w \in [1..n -> SampleWeights],
       t \in [1..n -> {0, 1}] :
        InitAll(ARCHETYPES, 1, NoRow, NoSim,
                [stage |-> "sample", x |-> x, t |-> t, w |-> w])

\* one call of a helper on the sample
StatCall ==
    /\ stat.stage = "sample"
    /\ \E helper \in Helpers :
          stat' = [stage |-> "returned", helper |-> helper, x |-> stat.x,
                   t |-> stat.t, w |-> stat.w,
                   result |-> HelperResult(helper, stat.x, stat.t, stat.w)]
    /\ UNCHANGED <<pc, catalog, n_total, allocVars, scaleVars, tableVars,
                   rngVars, error, runVars, row, sim, trace>>

NextStat == StatCall

SpecStat == InitStat /\ [][NextStat]_vars

(***************************************************************************)
(* Properties.                                                             *)
(***************************************************************************)
SizesOf(ns) == [i \in DOMAIN ns |-> ns[i][2]]

\* C1: once the allocation is complete, every archetype id of the catalog
\* has exactly one sample size, each size is a non-negative integer, every
\* size but the highest id's is floor(N * prevalence), and the sizes sum to
\* exactly N.
C1_AllocationSumsToN ==
    pc = "scales" =>
        /\ NsIds = {catalog[i].id : i \in DOMAIN catalog}
        /\ Len(archetype_ns) = Len(catalog)
        /\ \A i \in DOMAIN catalog :
              LET arch == catalog[i]
                  n == NsOf(arch.id)
              IN  /\ n \in Nat
                  /\ arch.id # MaxArchId(catalog) =>
                        /\ n * 1000 <= n_total * arch.prevalence
                        /\ n_total * arch.prevalence < (n + 1) * 1000
        /\ SeqSum(SizesOf(archetype_ns)) = n_total

\* N = 13: the floors sum to 8, archetype 4 gets none and the last gets 5
C1_RemainderAbsorbed ==
    /\ pc = "scales"
    /\ n_total = 13
    /\ NsOf(4) = 0
    /\ NsOf(13) = 5

\* C2: in every row of the table, from the step that writes trnsfr_cr on,
\* x_FASt is 1 exactly when trnsfr_cr >= 12, and an untreated row has a
\* trnsfr_cr in 0..11.
C2_TreatedIffTwelveCredits ==
    "trnsfr_cr" \in DOMAIN df =>
        \A i \in 1..NRows :
            /\ df["x_FASt"][i] = 1 <=> df["trnsfr_cr"][i] >= 12
            /\ df["x_FASt"][i] = 0 => df["trnsfr_cr"][i] \in 0..11

C2_BothArmsReturned ==
    /\ pc = "done"
    /\ \E i, j \in 1..NRows :
          /\ df["x_FASt"][i] = 1 /\ df["trnsfr_cr"][i] = 15
          /\ df["x_FASt"][j] = 0 /\ df["trnsfr_cr"][j] = 11

\* C3: in every row of the table, credit_dose (in hundredths) equals
\* max(0, trnsfr_cr - 12) / 10 of the integer trnsfr_cr of the same row.
C3_DoseFromCreditCount ==
    "trnsfr_cr" \in DOMAIN df =>
        \A i \in 1..NRows :
            df["credit_dose"][i] = Max(0, df["trnsfr_cr"][i] - 12) * 10

\* a returned treated row of 15.5 raw credits: dose 0.35, trnsfr_cr 15
C3_FractionalCredits ==
    /\ pc = "done"
    /\ \E i \in 1..NRows :
          /\ df["x_FASt"][i] = 1
          /\ df["credit_dose"][i] = 35
          /\ df["trnsfr_cr"][i] = 15

\* C4: after generate_treatment_and_dose, the credit_dose of a row is
\* exactly 0 when x_FASt is 0, lies between 0 and 6.8 when x_FASt is 1, and
\* is never negative.
C4_DoseRange ==
    row.stage \in {"treated", "credits"} =>
        /\ row.credit_dose >= 0
        /\ row.x_FASt = 0 => row.credit_dose = 0
        /\ row.x_FASt = 1 => row.credit_dose <= 680

\* a treated row whose raw credits reached the cap of 80
C4_DoseAtCap ==
    /\ row.stage = "treated"
    /\ row.x_FASt = 1
    /\ row.credit_dose = 680

\* C5: the response generate_ordinal_response returns for an item is a
\* whole number between the item's scale_min and scale_max, whatever the
\* latent score and the noise, and no error is raised.
C5_ResponseWithinScale ==
    row.stage = "response" =>
        /\ row.response \in Int
        /\ row.scale_min <= row.response
        /\ row.response <= row.scale_max
        /\ error = "none"

\* an observed score beyond either end of the scale was clipped to it
C5_ClippedResponse ==
    /\ row.stage = "response"
    /\ \/ /\ RoundHalfEven(row.latent + row.noise) > row.scale_max
          /\ row.response = row.scale_max
       \/ /\ RoundHalfEven(row.latent + row.noise) < row.scale_min
          /\ row.response = row.scale_min

\* C6: the propensity generate_treatment_and_dose uses for the Bernoulli
\* draw of a row lies in [0.05, 0.80], for every archetype, calibration
\* factor and combination of hgrades, hapcl and bparented.
C6_PropensityWithinClip ==
    row.stage = "treated" =>
        /\ row.propensity >= PROP_MIN
        /\ row.propensity <= PROP_MAX

\* a row whose unclipped propensity was below 0.05
C6_LowerClipBinds ==
    /\ row.stage = "treated"
    /\ RawPropensity(ArchById(catalog, row.arch), row.hgrades, row.hapcl,
                     row.bparented, row.fast_scale) < PROP_MIN
    /\ row.propensity = PROP_MIN

\* C7 (as stated): every invocation of generate_dataset starts from the
\* position the seed puts the stream at.
C7_EveryInvocationFromSeed ==
    calls >= 1 => start_pos = SeedPos

\* C7 (amended): the first invocation of a process starts from the seeded
\* position, and the first invocation of a second process run returns the
\* columns, cells and archetype labels the first run returned, at the same
\* stream position.
C7_ProcessRunsRepeat ==
    /\ calls = 1 => start_pos = SeedPos
    /\ (procs = 2 /\ pc = "done") => Output = first_out

\* a second process run returned a table with a treated row
C7_SecondRunReturned ==
    /\ procs = 2
    /\ pc = "done"
    /\ first_out.set
    /\ \E i \in 1..NRows : df["x_FASt"][i] = 1

\* C8: after the reorder step the columns are exactly col_order, in order;
\* no cell column lies outside the schema; a schema column the upstream
\* table lacked is present with every cell NaN, and a column it had keeps
\* non-missing cells.
C8_CanonicalColumns ==
    pc \in {"return", "done"} =>
        /\ columns = col_order
        /\ DOMAIN df \subseteq SeqSet(col_order)
        /\ \A c \in SeqSet(col_order) \ upstream :
              /\ c \in DOMAIN df
              /\ \A i \in 1..NRows : df[c][i] = NaN
        /\ \A c \in (DOMAIN df) \cap upstream :
              \A i \in 1..NRows : df[c][i] # NaN

\* a returned table whose upstream lacked hgrades and had an extra column
C8_FilledAndDropped ==
    /\ pc = "done"
    /\ "hgrades" \notin upstream
    /\ "archetype_name" \in upstream

AllCenteredPairs == DerivedPairs \o << <<"StemMaj", "StemMaj_c">> >>

\* C9: every centered column x_c of the table equals, in every row, x minus
\* the mean of the table's own x column (both sides times the number of
\* rows), and the returned table has all ten centered columns.
C9_CenteredIsDeviation ==
    /\ \A k \in DOMAIN AllCenteredPairs :
          LET x == AllCenteredPairs[k][1]
              x_c == AllCenteredPairs[k][2]
          IN  x_c \in DOMAIN df =>
                 /\ x \in DOMAIN df
                 /\ \A i \in 1..NRows :
                       df[x_c][i] = NRows * df[x][i] - SeqSum(df[x])
    /\ pc \in {"return", "done"} =>
          \A k \in DOMAIN AllCenteredPairs : AllCenteredPairs[k][2] \in DOMAIN df

\* a returned table whose credit_dose and StemMaj vary over the rows
C9_NonConstantColumns ==
    /\ pc = "done"
    /\ df["credit_dose_c"][1] # 0
    /\ df["StemMaj_c"][1] # 0
    /\ SeqSum(df["credit_dose"]) % NRows # 0

\* C10: under a catalog whose prevalences do not sum to a positive value or
\* that declares a probability outside [0, 1], no variate is drawn, no row
\* is generated and no table is returned.
C10_InvalidCatalogFailsFast ==
    InvalidCatalog(catalog) =>
        /\ rng_pos = SeedPos
        /\ archetype_ids = <<>>
        /\ pc # "done"

\* a catalog whose prevalences are all zero returned a table
C10_ZeroPrevalenceReturned ==
    /\ pc = "done"
    /\ SeqSum([i \in DOMAIN catalog |-> catalog[i].prevalence]) = 0
    /\ NRows = n_total


\* C11: the table run() returns has n_simulations rows, whose iteration
\* values are pairwise distinct and are exactly 0..n_simulations-1.
C11_OneRecordPerSimulation ==
    sim.stage = "returned" =>
        /\ Len(sim.returned) = sim.n_simulations
        /\ {sim.returned[k].iteration : k \in DOMAIN sim.returned}
              = 0..(sim.n_simulations - 1)

\* a run of two simulations whose second iteration raised returned one row
C11_FailedIterationOmitted ==
    /\ sim.stage = "returned"
    /\ sim.n_simulations = 2
    /\ sim.results[2].error
    /\ Len(sim.returned) = 1


\* what the treatment loop added to EmoDiss of row i
EmoShift(i) == row.EmoDiss[i] - row.EmoDiss_base[i]

\* C12: for an archetype with a1 > 0, of two treated rows with positive
\* doses the one with the higher dose gets the strictly smaller EmoDiss
\* shift when dose_amplify < 0 and the strictly larger one when
\* dose_amplify > 0.
C12_ModerationDirection ==
    row.stage = "scored" =>
        LET arch == ArchById(catalog, row.arch)
        IN  \A i, j \in DOMAIN row.x_FASt :
               (/\ arch.a1 > 0
                /\ row.x_FASt[i] = 1 /\ row.x_FASt[j] = 1
                /\ 0 < row.credit_dose[i]
                /\ row.credit_dose[i] < row.credit_dose[j])
               => /\ arch.dose_amplify < 0 => EmoShift(j) < EmoShift(i)
                  /\ arch.dose_amplify > 0 => EmoShift(j) > EmoShift(i)

\* two treated rows of doses 0.35 and 6.8 under a1 > 0, dose_amplify < 0
C12_DampenedHighDose ==
    /\ row.stage = "scored"
    /\ ArchById(catalog, row.arch).a1 > 0
    /\ ArchById(catalog, row.arch).dose_amplify < 0
    /\ row.x_FASt = <<1, 1>>
    /\ row.credit_dose = <<35, 680>>
    /\ EmoShift(2) < EmoShift(1)

\* C13: for an archetype with a1 = a2 = 0 and dose_amplify = 0 both
\* mediators of every row equal their baseline draw, whatever x_FASt and
\* credit_dose; and a call for any archetype goes through the same step and
\* consumes six variates per row.
C13_NullEffectKeepsBaseline ==
    row.stage = "scored" =>
        LET arch == ArchById(catalog, row.arch)
        IN  /\ (arch.a1 = 0 /\ arch.a2 = 0 /\ arch.dose_amplify = 0) =>
                  /\ row.EmoDiss = row.EmoDiss_base
                  /\ row.QualEngag = row.QualEngag_base
            /\ rng_pos = SeedPos + 6 * Len(row.x_FASt)

\* archetype 3 of the documented catalog, treated rows with positive doses
C13_NullArchetypeTreated ==
    /\ row.stage = "scored"
    /\ catalog = ARCHETYPES
    /\ row.arch = 3
    /\ row.x_FASt = <<1, 1>>
    /\ row.credit_dose = <<35, 680>>
    /\ row.EmoDiss = row.EmoDiss_base


\* C14: apply_missingness keeps the columns, the number and order of the
\* rows and the archetype labels; it leaves every cell as it was, except
\* that a cell of one of the eleven MHW and QI items may become NaN.
C14_MissingnessFrame ==
    [][pc = "missing" =>
          /\ columns' = columns
          /\ archetype_ids' = archetype_ids
          /\ DOMAIN df' = DOMAIN df
          /\ \A c \in DOMAIN df :
                /\ Len(df'[c]) = Len(df[c])
                /\ \A i \in DOMAIN df[c] :
                      \/ df'[c][i] = df[c][i]
                      \/ /\ c \in SeqSet(MaskedItems)
                         /\ df'[c][i] = NaN]_vars

\* a distress cell of row 1 was masked, the engagement cell of row 1 kept
C14_OneCellMasked ==
    /\ pc = "reorder"
    /\ "MHWdmental" \in DOMAIN df
    /\ df["MHWdmental"][1] = NaN
    /\ df["MHWdmental"][2] # NaN
    /\ df["QIadmin"][1] = 4
    /\ df["QIadmin"][2] = NaN


\* C15: a weighted-statistic helper never raises, and it returns NaN when
\* the sample has no pair of a value and a weight that are both present or
\* when the weights of these pairs sum to zero.
C15_HelpersReturnNaN ==
    stat.stage = "returned" =>
        /\ stat.result.kind # "raised"
        /\ (\/ Len(Pairs(stat.x, stat.w)) = 0
            \/ SumW(Pairs(stat.x, stat.w)) = 0) => stat.result.kind = "nan"

\* weighted_mean of plot_descriptives.py on one value of weight zero
C15_ZeroWeightRaises ==
    /\ stat.stage = "returned"
    /\ stat.helper = "weighted_mean"
    /\ stat.x = <<1>>
    /\ stat.w = <<0>>
    /\ stat.result = Raised("ZeroDivisionError")


\* the archetypes of the batches begun so far, in the order they began
BatchIds(tr) ==
    LET begun == SelectSeq(tr, LAMBDA e : e.arch # 0 /\ e.stage = BatchStages[1])
    IN  [k \in DOMAIN begun |-> begun[k].arch]

\* the ids of the catalog in the order it lists them, the highest moved last
ListingOrder(cat) ==
    SelectSeq([i \in DOMAIN cat |-> cat[i].id], LAMBDA id : id # MaxArchId(cat))
    \o <<MaxArchId(cat)>>

\* C16 (as stated): whatever the catalog, a batch that begins before another
\* has the smaller archetype id, and the stages of the batches begin at
\* stream positions that never decrease.
C16_AscendingIdOrder ==
    /\ LET b == BatchIds(trace)
       IN  \A i, j \in DOMAIN b : i < j => b[i] < b[j]
    /\ \A k \in 1..(Len(trace) - 1) : trace[k].at <= trace[k + 1].at

\* C16 (amended): the batches begin in the order of archetype_ns, which is
\* the order the catalog lists its archetypes with the highest id moved
\* last, and the stages begin at stream positions that never decrease; a
\* catalog listed in ascending id order is processed in ascending id order.
C16_ListingOrder ==
    LET b == BatchIds(trace)
    IN  /\ b = SubSeq(ListingOrder(catalog), 1, Len(b))
        /\ \A k \in 1..(Len(trace) - 1) : trace[k].at <= trace[k + 1].at
        /\ (\A i, j \in DOMAIN catalog : i < j => catalog[i].id < catalog[j].id)
              => \A i, j \in DOMAIN b : i < j => b[i] < b[j]

\* a catalog that lists archetype 2 first returned a table whose batches
\* ran in the order 2, 1, 13
C16_DescendingListing ==
    /\ pc = "done"
    /\ catalog[1].id = 2
    /\ BatchIds(trace) = <<2, 1, 13>>


\* the number of positions of ids that hold id
CountOf(ids, id) == Cardinality({i \in DOMAIN ids : ids[i] = id})

\* C17: once the id column is inserted, the ids are 1..N in row order, each
\* once; the label vector has one label per row, every archetype labels as
\* many positions as rows were allocated to it, and the row at each position
\* carries the sex its label's archetype declares: it is a row of the batch
\* that label names.
C17_LabelsFollowRows ==
    "id" \in DOMAIN df =>
        /\ df["id"] = [i \in 1..n_total |-> i]
        /\ Len(archetype_ids) = Len(df["sex"])
        /\ \A k \in DOMAIN archetype_ns :
              CountOf(archetype_ids, archetype_ns[k][1]) = archetype_ns[k][2]
        /\ \A i \in DOMAIN archetype_ids :
              df["sex"][i] \in SexSupport(ArchById(catalog, archetype_ids[i]))

\* a returned table whose shuffle moved a row of archetype 2 (all male) in
\* front of a row of archetype 1 (all female)
C17_ShuffleMovedRows ==
    /\ pc = "done"
    /\ catalog[1].id = 1
    /\ archetype_ids[1] = 2 /\ df["sex"][1] = "Male" /\ df["id"][1] = 1
    /\ archetype_ids[n_total] = 1 /\ df["sex"][n_total] = "Female"


\* the expected number of female rows, in ten-thousandths of a row: the rows
\* of an archetype that declares a sex are all of that sex, every other row
\* is female with probability SEX_FEMALE_PROB
ExpectedFemale(cat, ns) ==
    SeqSum([k \in DOMAIN ns |->
        LET arch == ArchById(cat, ns[k][1])
        IN  IF arch.sex = "Female" THEN PROB_ONE * ns[k][2]
            ELSE IF arch.sex = "None" THEN SEX_FEMALE_PROB * ns[k][2]
            ELSE 0])

\* C18: once the documented catalog is allocated over N_TOTAL = 5000 rows, the
\* expected female share of the table is within one percentage point of
\* SEX_FEMALE_PROB (53%).
C18_FemaleShareOnTarget ==
    (pc = "scales" /\ n_total = N_TOTAL) =>
        /\ ExpectedFemale(catalog, archetype_ns) >= (SEX_FEMALE_PROB - 100) * n_total
        /\ ExpectedFemale(catalog, archetype_ns) <= (SEX_FEMALE_PROB + 100) * n_total

\* the allocation of 5000 rows gives 1375 rows to the all-female archetypes
\* and 525 to the all-male ones, and the expected female share is above 60%
C18_FemaleShareAboveSixty ==
    /\ pc = "scales" /\ n_total = N_TOTAL
    /\ NsOf(1) + NsOf(5) = 1375
    /\ ExpectedFemale(catalog, archetype_ns) > 6000 * n_total


\* the place of a stage in the text of generate_dataset: the five stages of
\* the loop body, then the statements after the loop
StageRank(stage) ==
    CASE stage = "demographics" -> 1
      [] stage = "background" -> 2
      [] stage = "treatment" -> 3
      [] stage = "constructs" -> 4
      [] stage = "items" -> 5
      [] stage = "concat_shuffle" -> 6
      [] stage = "id" -> 7
      [] stage = "derived" -> 8
      [] stage = "dc" -> 9
      [] stage = "grades_stem" -> 10
      [] stage = "r" -> 11
      [] stage = "missingness" -> 12
      [] stage = "reorder" -> 13

\* within every batch: demographics, background, treatment, constructs, items
BatchStagesInOrder(tr) ==
    \A i, j \in DOMAIN tr :
        (i < j /\ tr[i].arch # 0 /\ tr[i].arch = tr[j].arch)
            => StageRank(tr[i].stage) < StageRank(tr[j].stage)

\* the steps after the batch loop other than missingness and the reorder
AssemblySteps == {"concat_shuffle", "id", "derived", "dc", "grades_stem", "r"}

\* C19 (as stated): the stages of every batch run in the order demographics,
\* background, treatment, constructs, items, and missingness is applied
\* before every assembly step: concatenation and shuffle, id, derived and
\* centered variables, bootstrap columns.
C19_MissingnessBeforeAssembly ==
    /\ BatchStagesInOrder(trace)
    /\ \A i, j \in DOMAIN trace :
          (trace[i].stage = "missingness" /\ trace[j].stage \in AssemblySteps)
              => i < j

\* C19 (amended): the stages of every batch run in the order demographics,
\* background, treatment, constructs, items; every batch ends before the
\* steps after the loop begin; those run as concatenation and shuffle, id,
\* derived variables, DC variables, grades and STEM major, r variables,
\* then missingness, then the column reorder.
C19_MissingnessAfterAssembly ==
    /\ BatchStagesInOrder(trace)
    /\ \A i, j \in DOMAIN trace :
          (i < j /\ trace[i].arch = 0) =>
              /\ trace[j].arch = 0
              /\ StageRank(trace[i].stage) < StageRank(trace[j].stage)
    /\ \A j \in DOMAIN trace :
          trace[j].stage = "missingness" =>
              /\ \A st \in AssemblySteps : \E i \in 1..(j - 1) : trace[i].stage = st
              /\ \A i \in 1..(j - 1) : trace[i].stage # "reorder"

\* a returned table: the items of a batch were generated, the r variables
\* were drawn, then missingness was applied, then the columns were reordered
C19_MissingnessJustBeforeReorder ==
    /\ pc = "done"
    /\ \E i, j \in DOMAIN trace :
          /\ i < j
          /\ trace[i].stage = "items" /\ trace[i].arch # 0
          /\ trace[j].stage = "r"
          /\ j + 2 = Len(trace)
          /\ trace[j + 1].stage = "missingness"
          /\ trace[j + 2].stage = "reorder"


\* C20: at least one archetype of the catalog is flagged first-generation by
\* generate_hs_background, so that its parental education is drawn from
\* 1..4 and a bparented below 5 can appear in the table.
C20_FirstGenDistributionUsed ==
    \E i \in DOMAIN catalog :
        /\ IsFirstGen(catalog[i])
        /\ BparentedSupport(catalog[i]) = {1, 2, 3, 4}

\* a returned table of the documented catalog, in which most archetypes
\* declare a first-generation probability of one half or more: no archetype
\* is flagged, every archetype draws parental education from 5..8, and no
\* row has a bparented below 5
C20_NoArchetypeFlagged ==
    /\ pc = "done"
    /\ catalog = ARCHETYPES
    /\ \E i \in DOMAIN catalog : catalog[i].firstgen >= 50
    /\ \A i \in DOMAIN catalog :
          ~IsFirstGen(catalog[i]) /\ BparentedSupport(catalog[i]) = {5, 6, 7, 8}
    /\ \A r \in DOMAIN df["bparented"] : df["bparented"][r] >= 5


\* C21: after generate_construct_scores, each mediator of an untreated row
\* equals its baseline draw, and each mediator of a treated row equals its
\* baseline draw plus 1.5 times the archetype's effect (a1 for EmoDiss, a2
\* for QualEngag) plus, when the dose is positive, 0.3 times the effect
\* times dose_amplify times the dose; the effects and the amplification are
\* those of the archetype the batch was generated for.
C21_MediatorFormula ==
    row.stage = "scored" =>
        LET arch == ArchById(catalog, row.arch)
            amp == arch.dose_amplify
        IN  \A i \in DOMAIN row.x_FASt :
               LET d == row.credit_dose[i]
               IN  IF row.x_FASt[i] # 1
                   THEN /\ row.EmoDiss[i] = row.EmoDiss_base[i]
                        /\ row.QualEngag[i] = row.QualEngag_base[i]
                   ELSE /\ row.EmoDiss[i] = row.EmoDiss_base[i] + arch.a1 * 15000
                              + (IF d > 0 THEN arch.a1 * amp * d * 3 ELSE 0)
                        /\ row.QualEngag[i] = row.QualEngag_base[i] + arch.a2 * 15000
                              + (IF d > 0 THEN arch.a2 * amp * d * 3 ELSE 0)

\* a batch of archetype 1 (a1 = 0.25, a2 = -0.20, dose_amplify = 1.2) with an
\* untreated row and a treated row of dose 0.35: the first keeps its
\* baseline, the second is shifted by 0.375 + 0.0315 and -0.3 - 0.0252
C21_TreatedAndUntreatedRow ==
    /\ row.stage = "scored"
    /\ catalog = ARCHETYPES
    /\ row.arch = 1
    /\ row.x_FASt = <<0, 1>>
    /\ row.credit_dose = <<0, 35>>
    /\ row.EmoDiss[1] = row.EmoDiss_base[1]
    /\ row.EmoDiss[2] - row.EmoDiss_base[2] = 406500
    /\ row.QualEngag[2] - row.QualEngag_base[2] = -325200


\* the outcome columns of a scored batch and their baseline draws
OutcomesOf(rw) == <<rw.Belong, rw.Gains, rw.SupportEnv, rw.Satisf>>
OutcomeBasesOf(rw) ==
    <<rw.Belong_base, rw.Gains_base, rw.SupportEnv_base, rw.Satisf_base>>

\* C22: every outcome of every row equals its own baseline draw plus a part
\* of -0.12 times (final EmoDiss - 3.5) plus a part of 0.10 times (final
\* QualEngag - 5.0): all of both for Belong and Satisf, 0.8 and 0.7 for
\* Gains, 0.9 and 0.8 for SupportEnv; and two rows with equal outcome
\* baselines and equal final mediators have equal outcomes, whatever their
\* x_FASt and credit_dose.
C22_OutcomesFromFinalMediators ==
    row.stage = "scored" =>
        /\ \A i \in DOMAIN row.x_FASt :
              LET de == ((row.EmoDiss[i] - 3500000) * (-12)) \div 100
                  ee == ((row.QualEngag[i] - 5000000) * 10) \div 100
              IN  /\ row.Belong[i] = row.Belong_base[i] + de + ee
                  /\ row.Gains[i] = row.Gains_base[i]
                        + ((de * 8) \div 10) + ((ee * 7) \div 10)
                  /\ row.SupportEnv[i] = row.SupportEnv_base[i]
                        + ((de * 9) \div 10) + ((ee * 8) \div 10)
                  /\ row.Satisf[i] = row.Satisf_base[i] + de + ee
                  /\ row.EmoDiss[i] > 3500000 => de < 0
                  /\ row.QualEngag[i] > 5000000 => ee > 0
        /\ \A i, j \in DOMAIN row.x_FASt :
              (/\ row.EmoDiss[i] = row.EmoDiss[j]
               /\ row.QualEngag[i] = row.QualEngag[j]
               /\ \A k \in 1..4 : OutcomeBasesOf(row)[k][i] = OutcomeBasesOf(row)[k][j])
              => \A k \in 1..4 : OutcomesOf(row)[k][i] = OutcomesOf(row)[k][j]

\* a batch of an archetype whose effects are zero: an untreated row and a
\* treated row of dose 0.35 with equal baselines and equal final mediators
\* have the same Belong, which differs from its baseline
C22_EqualMediatorsEqualOutcomes ==
    /\ row.stage = "scored"
    /\ row.x_FASt = <<0, 1>>
    /\ row.credit_dose = <<0, 35>>
    /\ row.EmoDiss[1] = row.EmoDiss[2]
    /\ row.QualEngag[1] = row.QualEngag[2]
    /\ \A k \in 1..4 : OutcomeBasesOf(row)[k][1] = OutcomeBasesOf(row)[k][2]
    /\ row.Belong[1] = row.Belong[2]
    /\ row.Belong[1] # row.Belong_base[1]


\* the variate apply_missingness drew for row i of column c of a table of n
\* rows, in a stream tp of which the call began at position before: the
\* columns are visited in the order of MaskedItems, the rows in order
CellDraw(tp, before, c, i, n) ==
    LET j == CHOOSE k \in DOMAIN MaskedItems : MaskedItems[k] = c
    IN  tp[before + (j - 1) * n + i]

\* the six MHW items
MhwItems ==
    {"MHWdacad", "MHWdlonely", "MHWdmental", "MHWdexhaust", "MHWdsleep",
     "MHWdfinancial"}

\* C23: apply_missingness masks the cell of a row in an MHW item exactly when
\* the cell's variate is below 0.05, or 0.10 for a row of archetype 3 or 4,
\* plus 0.05 exactly when the item is MHWdmental or MHWdlonely and the
\* response the table held before the call is >= 5; a cell not masked keeps
\* that response.
C23_DistressRate ==
    [][pc = "missing" =>
          \A c \in MhwItems \cap DOMAIN df : \A i \in DOMAIN df[c] :
              LET rate == (IF archetype_ids[i] \in {3, 4} THEN 10 ELSE 5)
                          + (IF c \in {"MHWdmental", "MHWdlonely"} /\ df[c][i] >= 5
                             THEN 5 ELSE 0)
                  u == CellDraw(tape', rng_pos, c, i, Len(df[c]))
              IN  df'[c][i] = IF u < rate THEN NaN ELSE df[c][i]]_vars

\* two rows of archetype 13 whose variates are all 0.09: the MHWdmental cell
\* of row 1 is masked (a response >= 5) and that of row 2 keeps its response
\* 2, while the MHWdexhaust cells keep their responses 6 and 5
C23_HighResponseMasked ==
    /\ pc = "reorder"
    /\ "MHWdmental" \in DOMAIN df
    /\ archetype_ids = <<13, 13>>
    /\ \A i \in 1..2 : /\ CellDraw(tape, SeedPos, "MHWdmental", i, 2) = 9
                       /\ CellDraw(tape, SeedPos, "MHWdexhaust", i, 2) = 9
    /\ df["MHWdmental"] = <<NaN, 2>>
    /\ df["MHWdexhaust"] = <<6, 5>>


\* the five QI items
QiItems == {"QIadmin", "QIstudent", "QIadvisor", "QIfaculty", "QIstaff"}

\* C24: apply_missingness masks the cell of a row in a QI item exactly when
\* the cell's variate is below a rate that the row's archetype alone gives
\* (0.06 for archetypes 1, 2 and 7, else 0.03): two rows of the same
\* archetype whose variates are equal are masked alike, whatever their QI
\* responses, treatment, dose and the masks of their other cells.
C24_EngagementRateByArchetype ==
    [][pc = "missing" =>
          \A c \in QiItems \cap DOMAIN df :
              LET n == Len(df[c])
                  u(i) == CellDraw(tape', rng_pos, c, i, n)
              IN  /\ \A i \in 1..n :
                        df'[c][i] =
                           IF u(i) < (IF archetype_ids[i] \in {1, 2, 7} THEN 6 ELSE 3)
                           THEN NaN ELSE df[c][i]
                  /\ \A i, j \in 1..n :
                        (archetype_ids[i] = archetype_ids[j] /\ u(i) = u(j))
                            => (df'[c][i] = NaN <=> df'[c][j] = NaN)]_vars

\* two rows of archetype 1, one untreated and one treated, whose distress
\* cell is masked in the first only: with a variate of 0.04 each, the QIadmin
\* cells (responses 4 and 6) are both masked
C24_SameArchetypeMaskedAlike ==
    /\ pc = "reorder"
    /\ "MHWdmental" \in DOMAIN df
    /\ archetype_ids = <<1, 1>>
    /\ df["x_FASt"] = <<0, 1>>
    /\ df["MHWdmental"][1] = NaN /\ df["MHWdmental"][2] # NaN
    /\ \A i \in 1..2 : CellDraw(tape, SeedPos, "QIadmin", i, 2) = 4
    /\ df["QIadmin"] = <<NaN, NaN>>


\* C25: an archetype of the catalog gets the elevated QI missing rate 0.06
\* and the commuter shift of its time use exactly when the catalog declares
\* its living situation as 'With family (commuting)'.
C25_CommutersLiveWithFamily ==
    \A k \in DOMAIN catalog :
        LET id == catalog[k].id
        IN  /\ MissingRate("QIadmin", id, 4) = 6
                  <=> catalog[k].living = "With family (commuting)"
            /\ TimeUseShiftedDown(id)
                  <=> catalog[k].living = "With family (commuting)"

\* a row of archetype 1 and a row of archetype 3, both declared as living
\* with family and commuting: at a variate of 0.04 each the QIadmin cell of
\* the first is masked and that of the second is kept, and archetype 3 has
\* no commuter shift
C25_FamilyCommuterAtBaseRate ==
    /\ pc = "reorder"
    /\ archetype_ids = <<1, 3>>
    /\ \A i \in 1..2 :
          /\ ArchById(catalog, archetype_ids[i]).living = "With family (commuting)"
          /\ CellDraw(tape, SeedPos, "QIadmin", i, 2) = 4
    /\ df["QIadmin"] = <<NaN, 6>>
    /\ ~TimeUseShiftedDown(3)


\* C26: apply_missingness advances the stream by eleven variates per row;
\* the cells of the eleven columns have distinct places in that stretch, one
\* each, and the mask of a cell is decided by the variate at its own place:
\* the cell is masked exactly when that variate is below the cell's rate.
C26_OneDrawPerCell ==
    [][pc = "missing" =>
          LET n == Len(archetype_ids)
              place(j, i) == rng_pos + (j - 1) * n + i
          IN  /\ rng_pos' = rng_pos + Len(MaskedItems) * n
              /\ Len(MaskedItems) = 11
              /\ {place(j, i) : j \in DOMAIN MaskedItems, i \in 1..n}
                    = (rng_pos + 1)..rng_pos'
              /\ \A j \in DOMAIN MaskedItems : \A i \in 1..n :
                    MaskedItems[j] \in DOMAIN df =>
                          LET c == MaskedItems[j]
                          IN  /\ place(j, i) \in DOMAIN tape'
                              /\ df'[c][i] = NaN <=>
                                    tape'[place(j, i)]
                                       < MissingRate(c, archetype_ids[i], df[c][i])]_vars

\* the call drew 22 variates for two rows; in row 1 the MHWdexhaust cell was
\* masked at a variate of 0.02 while the QIadmin cell was kept at 0.14, and
\* the MHWdexhaust cell of row 2 was kept at 0.14
C26_CellsDecidedSeparately ==
    /\ pc = "reorder"
    /\ rng_pos = SeedPos + 22
    /\ CellDraw(tape, SeedPos, "MHWdexhaust", 1, 2) = 2
    /\ CellDraw(tape, SeedPos, "MHWdexhaust", 2, 2) = 14
    /\ CellDraw(tape, SeedPos, "QIadmin", 1, 2) = 14
    /\ df["MHWdexhaust"] = <<NaN, 5>>
    /\ df["QIadmin"][1] = 4


\* what the dose moderation added to the two mediators of a treated row i:
\* the shift of the mediator less the main effect
EmoDoseTerm(i) ==
    row.EmoDiss[i] - row.EmoDiss_base[i]
        - MainEffect(ArchById(catalog, row.arch).a1, row.x_FASt[i])
QualDoseTerm(i) ==
    row.QualEngag[i] - row.QualEngag_base[i]
        - MainEffect(ArchById(catalog, row.arch).a2, row.x_FASt[i])

\* C27: in a batch of an archetype of the documented catalog whose
\* dose_amplify is negative (archetypes 6 and 10), the dose term of every
\* treated row with a positive dose is <= 0 on EmoDiss and >= 0 on QualEngag.
C27_NegativeAmplifyHelps ==
    (/\ row.stage = "scored"
     /\ catalog = ARCHETYPES
     /\ ArchById(catalog, row.arch).dose_amplify < 0) =>
        \A i \in DOMAIN row.x_FASt :
            (row.x_FASt[i] = 1 /\ row.credit_dose[i] > 0) =>
                /\ EmoDoseTerm(i) <= 0
                /\ QualDoseTerm(i) >= 0

\* a treated row of archetype 6 (a1 = -0.10, a2 = 0.12, dose_amplify = -0.5)
\* with dose 6.8: the dose term raises EmoDiss by 0.102 and lowers QualEngag
\* by 0.1224
C27_DoseTermHarms ==
    /\ row.stage = "scored"
    /\ catalog = ARCHETYPES
    /\ row.arch = 6
    /\ row.x_FASt[2] = 1 /\ row.credit_dose[2] = 680
    /\ EmoDoseTerm(2) = 102000
    /\ QualDoseTerm(2) = -122400


\* C28: in every row of a table that has the r variables, r is trnsfr_cr - 12,
\* r_minus is min(r, 0) / 10 and r_plus is max(r, 0) / 10, so that
\* r_minus <= 0 <= r_plus, and r_plus equals credit_dose.
C28_RunningVariableOfDose ==
    "r" \in DOMAIN df =>
        \A i \in DOMAIN df["r"] :
            /\ df["r"][i] = df["trnsfr_cr"][i] - 12
            /\ df["r_minus"][i] = Min(df["r"][i], 0)
            /\ df["r_plus"][i] = Max(df["r"][i], 0)
            /\ df["r_minus"][i] <= 0 /\ df["r_plus"][i] >= 0
            /\ df["r_plus"][i] * 10 = df["credit_dose"][i]

\* a returned table with a treated row (at least 12 transfer credits, a
\* positive dose) whose r is -15, r_minus -2.0 and r_plus -1.0
C28_RandomRunningVariable ==
    /\ pc = "done"
    /\ \E i \in DOMAIN df["r"] :
          /\ df["x_FASt"][i] = 1 /\ df["trnsfr_cr"][i] >= 12
          /\ df["credit_dose"][i] > 0
          /\ df["r"][i] = -15
          /\ df["r_minus"][i] = -20
          /\ df["r_plus"][i] = -10


\* C29: a call of sample_time_use_midpoints with eight non-negative weights
\* does not raise, and it returns n values that are all midpoints.
C29_TimeUseNeverRaises ==
    (row.stage \in {"sampled", "raised"} /\ "probs" \in DOMAIN row) =>
        /\ row.stage = "sampled"
        /\ Len(row.values) = row.n
        /\ \A i \in DOMAIN row.values : row.values[i] \in Midpoints

\* the call with eight zero weights raised ValueError
C29_ZeroWeightsRaise ==
    /\ row.stage = "raised"
    /\ "probs" \in DOMAIN row
    /\ \A k \in DOMAIN row.probs : row.probs[k] = 0
    /\ row.exc = "ValueError"


\* C30: an exception raised by the data generator or the estimator in
\* iteration i does not end run(): the iteration is stored in
\* simulator.results as the record {iteration: i, converged: False, error},
\* the later iterations are still run and recorded, and when run() returns
\* simulator.results holds exactly the n_simulations records of this run,
\* whatever an earlier run had left there.
C30_FailureContained ==
    sim.stage \in {"loop", "returned"} =>
        /\ Len(sim.results) = Len(sim.did)
        /\ \A k \in DOMAIN sim.did :
              /\ sim.results[k].iteration = k - 1
              /\ sim.did[k] \in RaisedOutcomes =>
                    /\ sim.results[k].converged = FALSE
                    /\ sim.results[k].error
        /\ sim.stage = "returned" =>
              /\ Len(sim.results) = sim.n_simulations
              /\ error = "none"

\* the second run of a simulator has returned; in it the generator raised in
\* iteration 0, the estimator raised in iteration 1 and iteration 2 succeeded
C30_SecondRunAfterRaises ==
    /\ sim.stage = "returned"
    /\ sim.runs = 2
    /\ sim.n_simulations = 3
    /\ sim.did = <<"generator_raised", "estimator_raised", "success">>
    /\ Len(sim.results) = 3
    /\ sim.results[3].converged

=============================================================================
